---- MODULE Spec2Model ----
(***************************************************************************)
(* A model of GLDfish's retrieval core: the rate-limited fetch client of   *)
(* src/src/data_fetcher.py (UnusualWhalesClient), the fan-out fetches of   *)
(* the iv_chart command in src/src/bot.py, and the strike selection,       *)
(* alignment, contract discovery and earnings-window code of               *)
(* src/src/utils.py.                                                       *)
(*                                                                         *)
(* Times are in milliseconds.  Prices and strikes are in thousandths of a  *)
(* dollar (the unit of the 8-digit strike code of a contract symbol).      *)
(***************************************************************************)
EXTENDS Integers, Sequences, FiniteSets, TLC

(***************************************************************************)
(* Bounds of the model.                                                    *)
(***************************************************************************)
\* concurrent callers of one client instance (one more than the slots)
NCallers == 5
\* callers in the specification of the retry loop
NRetryCallers == 2
\* granularity of the modelled clock (ms)
ClockStep == 75
\* the clock advances this many times
MaxTicks == 2
\* largest max_retries argument drawn for _request_with_retry
MaxRetries == 3

(***************************************************************************)
(* Program constants.                                                      *)
(***************************************************************************)
\* UnusualWhalesClient.REQUEST_DELAY = 0.15 s
REQUEST_DELAY == 150
\* UnusualWhalesClient.MAX_CONCURRENT_REQUESTS
MAX_CONCURRENT_REQUESTS == 4

VARIABLES
    \* ---- the fetch client (one UnusualWhalesClient instance) ----
    now,                 \* time.time(), ms
    last_request_time,   \* self._last_request_time
    permits,             \* free slots of self._semaphore
    max_retries,         \* arguments of _request_with_retry: every call site
    base_delay,          \*   of the repository passes the same ones (the
    max_delay,           \*   defaults), so they are per client here
    pc,                  \* each caller's position in _request_with_retry
    wake,                \* end of the asyncio.sleep a caller is in
    attempt,             \* loop variable of `for attempt in range(max_retries)`
    ndispatched,         \* per caller, the attempts it has dispatched
    last_dispatch,       \* when the latest request of any caller was dispatched
    closest_gap,         \* least time between two consecutive dispatches so far
    statuses,            \* per caller, the status received by each attempt
    delays,              \* per caller, the backoff delays it has slept
    result               \* what the call returned or raised

clientVars == <<now, last_request_time, permits, max_retries, base_delay,
                max_delay, pc, wake, attempt, ndispatched, last_dispatch,
                closest_gap, statuses, delays, result>>

Callers == 1..NCallers

Min(a, b) == IF a <= b THEN a ELSE b

RECURSIVE Pow2(_)
Pow2(n) == IF n = 0 THEN 1 ELSE 2 * Pow2(n - 1)

(***************************************************************************)
(* Sequences and sets.                                                     *)
(***************************************************************************)
Abs(x) == IF x < 0 THEN 0 - x ELSE x

SetMin(S) == CHOOSE x \in S : \A y \in S : x <= y

\* sorted(...) of distinct numbers
RECURSIVE SortSet(_)
SortSet(S) ==
    IF S = {} THEN <<>>
    ELSE <<SetMin(S)>> \o SortSet(S \ {SetMin(S)})

Range(seq) == {seq[i] : i \in 1..Len(seq)}

Last(seq) == seq[Len(seq)]

\* sorted(...) of a list of numbers: equal elements are kept
RECURSIVE Sorted(_)
Sorted(seq) ==
    IF seq = <<>> THEN <<>>
    ELSE LET rest == Sorted(Tail(seq))
             Before(x) == x < Head(seq)
             NotBefore(x) == x >= Head(seq)
         IN  SelectSeq(rest, Before) \o <<Head(seq)>>
             \o SelectSeq(rest, NotBefore)

\* the concatenation of a sequence of sequences
RECURSIVE Flatten(_)
Flatten(seqs) ==
    IF seqs = <<>> THEN <<>> ELSE Head(seqs) \o Flatten(Tail(seqs))

\* None where a number is expected: a field that is null or missing
Absent == -1

\* a number that is falsy in Python: zero or None
Falsy(v) == v = 0 \/ v = Absent

\* what a function or a coroutine does: return a value or raise
Return(v) == [raised |-> FALSE, value |-> v]
None == [none |-> TRUE]
Raise == [raised |-> TRUE, value |-> None]

(***************************************************************************)
(* Python's float is an IEEE-754 binary64 and its int is unbounded.  The   *)
(* arithmetic of the rate limit, of the symbol codec and of the            *)
(* interpolation is modelled bit for bit: a natural number is a sequence   *)
(* of limbs, least significant                                             *)
(* first and without leading zero limbs, and a float is a sign, an odd     *)
(* mantissa of at most 53 bits (or zero) and a binary exponent.  Overflow, *)
(* subnormals, infinities and NaN are outside the inputs drawn here.       *)
(***************************************************************************)
LimbBits == 15
LimbBase == 32768
MantissaBits == 53


RECURSIVE BigNorm(_)
BigNorm(a) ==
    IF a = <<>> THEN <<>>
    ELSE IF a[Len(a)] = 0 THEN BigNorm(SubSeq(a, 1, Len(a) - 1))
    ELSE a

RECURSIVE BigOfInt(_)
BigOfInt(n) ==
    IF n = 0 THEN <<>>
    ELSE <<n % LimbBase>> \o BigOfInt(n \div LimbBase)

\* the value of a bignum known to fit the model checker's integers
RECURSIVE BigToInt(_)
BigToInt(a) ==
    IF a = <<>> THEN 0
    ELSE a[1] + LimbBase * BigToInt(Tail(a))

Limb(a, i) == IF i <= Len(a) THEN a[i] ELSE 0

\* -1, 0 or 1 as a < b, a = b or a > b
RECURSIVE BigCmpFrom(_, _, _)
BigCmpFrom(a, b, i) ==
    IF i = 0 THEN 0
    ELSE IF Limb(a, i) < Limb(b, i) THEN -1
    ELSE IF Limb(a, i) > Limb(b, i) THEN 1
    ELSE BigCmpFrom(a, b, i - 1)

BigCmp(a, b) ==
    IF Len(a) < Len(b) THEN -1
    ELSE IF Len(a) > Len(b) THEN 1
    ELSE BigCmpFrom(a, b, Len(a))

RECURSIVE BigAddCarry(_, _, _)
BigAddCarry(a, b, carry) ==
    IF a = <<>> /\ b = <<>>
    THEN IF carry = 0 THEN <<>> ELSE <<carry>>
    ELSE LET s == Limb(a, 1) + Limb(b, 1) + carry
         IN  <<s % LimbBase>>
             \o BigAddCarry(IF a = <<>> THEN a ELSE Tail(a),
                            IF b = <<>> THEN b ELSE Tail(b),
                            s \div LimbBase)

BigAdd(a, b) == BigAddCarry(a, b, 0)

\* a - b for a >= b
RECURSIVE BigSubBorrow(_, _, _)
BigSubBorrow(a, b, borrow) ==
    IF a = <<>> THEN <<>>
    ELSE LET d == a[1] - Limb(b, 1) - borrow
         IN  <<d % LimbBase>>
             \o BigSubBorrow(Tail(a), IF b = <<>> THEN b ELSE Tail(b),
                             IF d < 0 THEN 1 ELSE 0)

BigSub(a, b) == BigNorm(BigSubBorrow(a, b, 0))

\* a * k for 0 <= k < LimbBase
RECURSIVE BigMulLimb(_, _, _)
BigMulLimb(a, k, carry) ==
    IF a = <<>>
    THEN IF carry = 0 THEN <<>> ELSE <<carry>>
    ELSE LET p == a[1] * k + carry
         IN  <<p % LimbBase>> \o BigMulLimb(Tail(a), k, p \div LimbBase)

RECURSIVE BigMul(_, _)
BigMul(a, b) ==
    IF b = <<>> \/ a = <<>> THEN <<>>
    ELSE BigAdd(BigNorm(BigMulLimb(a, b[1], 0)),
                IF Len(b) = 1 THEN <<>> ELSE <<0>> \o BigMul(a, Tail(b)))

Zeros(n) == [i \in 1..n |-> 0]

\* a * 2^k
BigShl(a, k) ==
    IF a = <<>> THEN <<>>
    ELSE Zeros(k \div LimbBits) \o BigMulLimb(a, Pow2(k % LimbBits), 0)

\* a divided by a limb k > 0, from the most significant limb down
RECURSIVE BigDivLimb(_, _, _)
BigDivLimb(a, k, rem) ==
    IF a = <<>> THEN [q |-> <<>>, r |-> rem]
    ELSE LET cur == rem * LimbBase + a[Len(a)]
             rest == BigDivLimb(SubSeq(a, 1, Len(a) - 1), k, cur % k)
         IN  [q |-> rest.q \o <<cur \div k>>, r |-> rest.r]

\* floor(a / 2^k)
BigShr(a, k) ==
    IF k \div LimbBits >= Len(a) THEN <<>>
    ELSE BigNorm(BigDivLimb(SubSeq(a, k \div LimbBits + 1, Len(a)),
                            Pow2(k % LimbBits), 0).q)

RECURSIVE IntBitLen(_)
IntBitLen(n) == IF n = 0 THEN 0 ELSE 1 + IntBitLen(n \div 2)

BigBitLen(a) ==
    IF a = <<>> THEN 0
    ELSE LimbBits * (Len(a) - 1) + IntBitLen(a[Len(a)])

\* bit i of a, bit 0 the least significant
BigBit(a, i) == (Limb(a, i \div LimbBits + 1) \div Pow2(i % LimbBits)) % 2

\* TRUE when a has a one among its k least significant bits
BigLowBits(a, k) ==
    \/ \E i \in 1..(k \div LimbBits) : Limb(a, i) # 0
    \/ Limb(a, k \div LimbBits + 1) % Pow2(k % LimbBits) # 0

\* the number of trailing zero bits of a > 0
RECURSIVE IntTrailingZeros(_)
IntTrailingZeros(n) == IF n % 2 = 1 THEN 0 ELSE 1 + IntTrailingZeros(n \div 2)

RECURSIVE BigTrailingZeros(_)
BigTrailingZeros(a) ==
    IF a[1] = 0 THEN LimbBits + BigTrailingZeros(Tail(a))
    ELSE IntTrailingZeros(a[1])

\* the largest digit d, built from bit `bit` down, with d * b <= num
RECURSIVE BigDigit(_, _, _, _)
BigDigit(num, b, bit, d) ==
    IF bit < 0 THEN d
    ELSE IF BigCmp(BigMulLimb(b, d + Pow2(bit), 0), num) <= 0
    THEN BigDigit(num, b, bit - 1, d + Pow2(bit))
    ELSE BigDigit(num, b, bit - 1, d)

\* floor(a * LimbBase^n / b) and the remainder, for a < b: long division,
\* one limb of the quotient at a time
RECURSIVE BigDivLimbs(_, _, _)
BigDivLimbs(a, b, n) ==
    IF n = 0 THEN [q |-> <<>>, r |-> a]
    ELSE LET prev == BigDivLimbs(a, b, n - 1)
             num == IF prev.r = <<>> THEN <<>> ELSE <<0>> \o prev.r
             d == BigDigit(num, b, LimbBits - 1, 0)
         IN  [q |-> BigNorm(<<d>> \o prev.q),
              r |-> BigSub(num, BigNorm(BigMulLimb(b, d, 0)))]

\* A float: (-1)^sign * mant * 2^exp with mant odd, or mant zero.
Float(sign, mant, exp) ==
    IF mant = <<>> THEN [sign |-> sign, mant |-> <<>>, exp |-> 0]
    ELSE LET z == BigTrailingZeros(mant)
         IN  [sign |-> sign, mant |-> BigShr(mant, z), exp |-> exp + z]

\* round-to-nearest, ties to even, of (-1)^sign * (n + f) * 2^exp where
\* 0 <= f < 1 and sticky tells whether f > 0
FloatRound(sign, n, exp, sticky) ==
    LET k == BigBitLen(n) - MantissaBits
    IN  IF k <= 0 THEN Float(sign, n, exp)
        ELSE LET q == BigShr(n, k)
                 half == BigBit(n, k - 1) = 1
                 rest == sticky \/ BigLowBits(n, k - 1)
                 up == half /\ (rest \/ BigBit(q, 0) = 1)
             IN  Float(sign, IF up THEN BigAddCarry(q, <<>>, 1) ELSE q,
                       exp + k)

\* float(n) for an integer n of the model checker's range
FloatOfInt(n) ==
    IF n < 0 THEN FloatRound(1, BigOfInt(0 - n), 0, FALSE)
    ELSE FloatRound(0, BigOfInt(n), 0, FALSE)

FloatNeg(x) == [x EXCEPT !.sign = 1 - x.sign]

\* abs(x)
FloatAbs(x) == [x EXCEPT !.sign = 0]

\* -1, 0 or 1 as |x| < |y|, |x| = |y| or |x| > |y|
FloatCmpAbs(x, y) ==
    LET e == IF x.exp < y.exp THEN x.exp ELSE y.exp
    IN  BigCmp(BigShl(x.mant, x.exp - e), BigShl(y.mant, y.exp - e))

\* -1, 0 or 1 as x < y, x = y or x > y (0.0 equals -0.0)
FloatCmp(x, y) ==
    IF x.mant = <<>> /\ y.mant = <<>> THEN 0
    ELSE IF x.mant = <<>> THEN (IF y.sign = 1 THEN 1 ELSE -1)
    ELSE IF y.mant = <<>> THEN (IF x.sign = 1 THEN -1 ELSE 1)
    ELSE IF x.sign # y.sign THEN (IF x.sign = 1 THEN -1 ELSE 1)
    ELSE IF x.sign = 0 THEN FloatCmpAbs(x, y)
    ELSE 0 - FloatCmpAbs(x, y)

FloatAdd(x, y) ==
    LET e == IF x.exp < y.exp THEN x.exp ELSE y.exp
        a == BigShl(x.mant, x.exp - e)
        b == BigShl(y.mant, y.exp - e)
        c == BigCmp(a, b)
    IN  IF x.mant = <<>> /\ y.mant = <<>>
        THEN Float(IF x.sign = 1 /\ y.sign = 1 THEN 1 ELSE 0, <<>>, 0)
        ELSE IF x.sign = y.sign THEN FloatRound(x.sign, BigAdd(a, b), e, FALSE)
        ELSE IF c = 0 THEN Float(0, <<>>, 0)
        ELSE IF c > 0 THEN FloatRound(x.sign, BigSub(a, b), e, FALSE)
        ELSE FloatRound(y.sign, BigSub(b, a), e, FALSE)

FloatSub(x, y) == FloatAdd(x, FloatNeg(y))

FloatMul(x, y) ==
    FloatRound((x.sign + y.sign) % 2, BigMul(x.mant, y.mant),
               x.exp + y.exp, FALSE)

\* x / y for y # 0: the quotient of the mantissas is taken to 55 bits or
\* more, and a remainder left makes it sticky.  A divisor mantissa of one
\* limb is divided by directly; otherwise the mantissas are first brought
\* to one bit length and the divisor doubled, so that it is the larger.
FloatDiv(x, y) ==
    LET lx == BigBitLen(x.mant)
        ly == BigBitLen(y.mant)
        l == IF lx > ly THEN lx ELSE ly
        n == 4
        short == BigDivLimb(BigShl(x.mant, ly + LimbBits * n), y.mant[1], 0)
        long == BigDivLimbs(BigShl(x.mant, l - lx),
                            BigShl(y.mant, l - ly + 1), n)
        sign == (x.sign + y.sign) % 2
    IN  IF x.mant = <<>> THEN Float(sign, <<>>, 0)
        ELSE IF Len(y.mant) = 1
        THEN FloatRound(sign, BigNorm(short.q),
                        x.exp - y.exp - (ly + LimbBits * n), short.r # 0)
        ELSE FloatRound(sign, long.q,
                        x.exp - y.exp + lx - ly + 1 - LimbBits * n,
                        long.r # <<>>)

\* int(x): the integer part, toward zero (of a magnitude within range)
FloatToInt(x) ==
    LET magnitude == IF x.exp >= 0 THEN BigToInt(BigShl(x.mant, x.exp))
                     ELSE BigToInt(BigShr(x.mant, 0 - x.exp))
    IN  IF x.sign = 1 THEN 0 - magnitude ELSE magnitude

\* the float nearest n / scale, as float() reads a decimal literal
FloatOfDecimal(n, scale) == FloatDiv(FloatOfInt(n), FloatOfInt(scale))

(***************************************************************************)
(* The outcomes of one HTTP attempt: a status code, or no response at all  *)
(* (a transport exception of httpx, status 0 here).                        *)
(***************************************************************************)
Outcomes == {200, 429, 500, 0}

\* the clock stops advancing here
TimeLimit == REQUEST_DELAY + MaxTicks * ClockStep

\* no request dispatched yet / no gap observed yet
NoDispatch == 0 - 1
NoGap == TimeLimit + 1

NoResult == [kind |-> "none", status |-> 0, attempt |-> 0]

\* response.raise_for_status() returns for a 2xx status and raises otherwise
IsSuccess(status) == status >= 200 /\ status < 300

\* a retry on every error status
IsRateLimitAnyError(status) == status >= 400

\* `if e.response.status_code == 429`
IsRateLimit(status) == status = 429

\* the backoff without its cap
BackoffDelayUncapped(a) == base_delay * Pow2(a)

\* delay = min(base_delay * (2 ** attempt), max_delay)
BackoffDelay(a) == Min(base_delay * Pow2(a), max_delay)

\* an off-by-one in the retry ceiling
AttemptsRemainOffByOne(a) == a < max_retries

\* `if attempt < max_retries - 1`
AttemptsRemain(a) == a < max_retries - 1

\* time.time() and the client's times are floats of seconds: the float of a
\* clock reading in ms
Seconds(ms) == FloatOfDecimal(ms, 1000)

\* the clock readings the rate limit is tabulated for
MaxClock == 20 * REQUEST_DELAY

\* `time_since_last_request < self.REQUEST_DELAY` in floats when the clock
\* reads exactly REQUEST_DELAY ms after _last_request_time = last ms (the
\* entry of index last + 1): the subtraction can round below REQUEST_DELAY
RoundsBelowDelay ==
    [i \in 1..(MaxClock + 1) |->
        FloatCmp(FloatSub(Seconds(i - 1 + REQUEST_DELAY), Seconds(i - 1)),
                 Seconds(REQUEST_DELAY)) < 0] \o <<>>

\* time_since_last_request = current_time - self._last_request_time, in ms
TimeSinceLastRequest(t) == t - last_request_time

\* `if time_since_last_request < self.REQUEST_DELAY`, of floats: a gap of
\* exactly REQUEST_DELAY is below it where the subtraction rounds down; any
\* other gap is a whole ms or more away from it, the rounding 1e-15 s
MustWait(t) ==
    IF TimeSinceLastRequest(t) = REQUEST_DELAY
    THEN RoundsBelowDelay[last_request_time + 1]
    ELSE TimeSinceLastRequest(t) < REQUEST_DELAY

\* delay = self.REQUEST_DELAY - time_since_last_request, to the nearest ms:
\* the sleep at a gap of exactly REQUEST_DELAY is of some 1e-17 s
RateLimitDelay(t) == REQUEST_DELAY - TimeSinceLastRequest(t)

\* the guard of asyncio.Semaphore.acquire: a slot is free
SlotFree == permits > 0

\* a semaphore with a slot too many
InitialPermitsTooMany == MAX_CONCURRENT_REQUESTS + 1

\* asyncio.Semaphore(self.MAX_CONCURRENT_REQUESTS)
InitialPermits == MAX_CONCURRENT_REQUESTS

(***************************************************************************)
(* client.request(...) is issued by caller c at the current time.          *)
(***************************************************************************)
Dispatch(c) ==
    /\ pc' = [pc EXCEPT ![c] = "in_flight"]
    /\ ndispatched' = [ndispatched EXCEPT ![c] = @ + 1]
    /\ last_dispatch' = now
    /\ closest_gap' = IF last_dispatch = NoDispatch THEN closest_gap
                      ELSE Min(closest_gap, now - last_dispatch)

(***************************************************************************)
(* `async with self._semaphore: await self._rate_limit()` from the moment  *)
(* the slot is taken to the first suspension: either the asyncio.sleep of  *)
(* _rate_limit, or the request of attempt 0.  A sleep shorter than the     *)
(* clock's unit suspends the caller as any other and is over at once.      *)
(***************************************************************************)
Enter(c) ==
    /\ permits' = permits - 1
    /\ IF MustWait(now)
       THEN /\ pc' = [pc EXCEPT ![c] = "rate_sleep"]
            /\ wake' = [wake EXCEPT ![c] = now + RateLimitDelay(now)]
            /\ UNCHANGED <<last_request_time, ndispatched, last_dispatch, closest_gap>>
       ELSE /\ last_request_time' = now
            /\ Dispatch(c)
            /\ UNCHANGED wake
    /\ UNCHANGED <<now, max_retries, base_delay, max_delay, attempt, statuses,
                   delays, result>>

(***************************************************************************)
(* A caller invokes _request_with_retry.  Callers are numbered in the      *)
(* order in which they arrive.  With a free slot the semaphore is taken    *)
(* without suspending; otherwise the caller waits for a release.           *)
(***************************************************************************)
Call(c) ==
    /\ pc[c] = "idle"
    /\ c > 1 => pc[c - 1] # "idle"
    /\ IF SlotFree
       THEN Enter(c)
       ELSE /\ pc' = [pc EXCEPT ![c] = "waiting"]
            /\ UNCHANGED <<now, last_request_time, permits, max_retries,
                           base_delay, max_delay, wake, attempt,
                           ndispatched, last_dispatch, closest_gap,
                           statuses, delays, result>>

\* a suspended caller is granted a released slot
Acquire(c) ==
    /\ pc[c] = "waiting"
    /\ SlotFree
    /\ Enter(c)

(***************************************************************************)
(* _rate_limit after its asyncio.sleep: self._last_request_time =          *)
(* time.time(), then the request of attempt 0.                             *)
(***************************************************************************)
RateWake(c) ==
    /\ pc[c] = "rate_sleep"
    /\ now >= wake[c]
    /\ last_request_time' = now
    /\ Dispatch(c)
    /\ wake' = [wake EXCEPT ![c] = 0]
    /\ UNCHANGED <<now, permits, max_retries, base_delay, max_delay,
                   attempt, statuses, delays, result>>

\* leaving without giving the slot back
FinishKeepingSlot(c, kind, status) ==
    /\ pc' = [pc EXCEPT ![c] = "done"]
    /\ result' = [result EXCEPT
                    ![c] = [kind |-> kind, status |-> status,
                            attempt |-> attempt[c]]]
    /\ UNCHANGED <<permits, wake, delays>>

\* leaving `async with self._semaphore` by return or by exception
Finish(c, kind, status) ==
    /\ pc' = [pc EXCEPT ![c] = "done"]
    /\ result' = [result EXCEPT
                    ![c] = [kind |-> kind, status |-> status,
                            attempt |-> attempt[c]]]
    /\ permits' = permits + 1
    /\ UNCHANGED <<wake, delays>>

(***************************************************************************)
(* The attempt in flight completes with outcome s: lines 86-103.           *)
(***************************************************************************)
Respond(c, s) ==
    /\ pc[c] = "in_flight"
    /\ statuses' = [statuses EXCEPT ![c] = Append(@, s)]
    /\ IF s = 0 THEN Finish(c, "TransportError", s)
       ELSE IF IsSuccess(s) THEN Finish(c, "response", s)
       ELSE IF IsRateLimit(s) /\ AttemptsRemain(attempt[c])
       THEN /\ pc' = [pc EXCEPT ![c] = "backoff"]
            /\ delays' = [delays EXCEPT ![c] = Append(@, BackoffDelay(attempt[c]))]
            /\ wake' = [wake EXCEPT ![c] = now + BackoffDelay(attempt[c])]
            /\ UNCHANGED <<permits, result>>
       ELSE Finish(c, "HTTPStatusError", s)
    /\ UNCHANGED <<now, last_request_time, max_retries, base_delay, max_delay,
                   attempt, ndispatched, last_dispatch, closest_gap>>

(***************************************************************************)
(* The backoff sleep is over: `continue`.  The for loop either issues the  *)
(* next attempt's request or, its range exhausted, falls through to the    *)
(* `raise Exception("Request failed after all retries")` of line 106.      *)
(***************************************************************************)
BackoffWake(c) ==
    /\ pc[c] = "backoff"
    /\ now >= wake[c]
    /\ wake' = [wake EXCEPT ![c] = 0]
    /\ IF attempt[c] + 1 < max_retries
       THEN /\ attempt' = [attempt EXCEPT ![c] = @ + 1]
            /\ Dispatch(c)
            /\ UNCHANGED <<permits, result>>
       ELSE /\ pc' = [pc EXCEPT ![c] = "done"]
            /\ result' = [result EXCEPT
                            ![c] = [kind |-> "Exception", status |-> 0,
                                    attempt |-> attempt[c]]]
            /\ permits' = permits + 1
            /\ UNCHANGED <<attempt, ndispatched, last_dispatch, closest_gap>>
    /\ UNCHANGED <<now, last_request_time, max_retries, base_delay,
                   max_delay, statuses, delays>>

\* time passes
Tick ==
    /\ now + ClockStep <= TimeLimit
    /\ now' = now + ClockStep
    /\ UNCHANGED <<last_request_time, permits, max_retries, base_delay,
                   max_delay, pc, wake, attempt, ndispatched, last_dispatch,
                   closest_gap, statuses, delays, result>>

(***************************************************************************)
(* __init__: _last_request_time = 0.0 and a semaphore of                   *)
(* MAX_CONCURRENT_REQUESTS slots.  time.time() is seconds since the epoch, *)
(* so the first call never waits: the clock starts REQUEST_DELAY after 0.  *)
(***************************************************************************)
InitClient ==
    /\ now = REQUEST_DELAY
    /\ last_request_time = 0
    /\ permits = InitialPermits
    /\ pc = [c \in Callers |-> "idle"]
    /\ wake = [c \in Callers |-> 0]
    /\ attempt = [c \in Callers |-> 0]
    /\ ndispatched = [c \in Callers |-> 0]
    /\ last_dispatch = NoDispatch
    /\ closest_gap = NoGap
    /\ statuses = [c \in Callers |-> <<>>]
    /\ delays = [c \in Callers |-> <<>>]
    /\ result = [c \in Callers |-> NoResult]


(***************************************************************************)
(* Strike selection (utils.py).  Prices and strikes are integers, in       *)
(* thousandths of a dollar.                                                *)
(***************************************************************************)
\* the strikes at or below the spot only, the nearest num_strikes of them
FindClosestStrikesBelow(spot_price, available_strikes, num_strikes) ==
    LET AtOrBelow(s) == s <= spot_price
        lower_strikes == SelectSeq(Sorted(available_strikes), AtOrBelow)
    IN  IF Len(lower_strikes) <= num_strikes THEN lower_strikes
        ELSE SubSeq(lower_strikes, Len(lower_strikes) - num_strikes + 1,
                    Len(lower_strikes))

\* find_closest_strikes(spot_price, available_strikes, num_strikes)
find_closest_strikes(spot_price, available_strikes, num_strikes) ==
    IF available_strikes = <<>> THEN <<>>
    ELSE
    LET sorted_strikes == Sorted(available_strikes)
        AtOrBelow(s) == s <= spot_price
        Above(s) == s > spot_price
        lower_strikes == SelectSeq(sorted_strikes, AtOrBelow)
        upper_strikes == SelectSeq(sorted_strikes, Above)
        closest0 ==
            (IF lower_strikes # <<>> THEN <<Last(lower_strikes)>> ELSE <<>>)
            \o (IF upper_strikes # <<>> THEN <<upper_strikes[1]>> ELSE <<>>)
        closest1 ==
            IF Len(closest0) < num_strikes /\ Len(lower_strikes) > 1
            THEN <<lower_strikes[Len(lower_strikes) - 1]>> \o closest0
            ELSE closest0
        closest2 ==
            IF /\ Len(closest0) < num_strikes
               /\ Len(upper_strikes) > 1
               /\ Len(closest1) < num_strikes
            THEN Append(closest1, upper_strikes[2])
            ELSE closest1
    IN  Sorted(closest2)

\* the calendar date of a candle's timestamp <<date, slot>>:
\* datetime.fromisoformat(...).strftime("%Y-%m-%d")
DateOf(timestamp) == timestamp[1]

\* a candle or an observation without a timestamp has the empty timestamp
NoTimestamp == <<>>

\* timestamp = candle.get("start_time") or candle.get("timestamp"): a record
\* always carries start_time here (NoTimestamp when the key is missing or
\* empty) and may carry the key timestamp
TimestampOf(record) ==
    IF record.start_time # NoTimestamp THEN record.start_time
    ELSE IF "timestamp" \in DOMAIN record THEN record.timestamp
    ELSE NoTimestamp

\* if not timestamp: continue
Timestamped(candle) == TimestampOf(candle) # NoTimestamp

\* a timestamp that datetime.fromisoformat does not parse has the date 0
Unparseable == <<0, 1>>
Parses(timestamp) == DateOf(timestamp) # 0

\* the candle has a timestamp and a calendar date is read from it
Dated(candle) == Timestamped(candle) /\ Parses(TimestampOf(candle))

\* A candle without the key close is a record without the field close; one
\* whose close is null has the close Absent.
\* candle.get("close", 0): the default stands for a missing key only
CloseOrZero(candle) == IF "close" \in DOMAIN candle THEN candle.close ELSE 0

\* float(candle.get("close", 0)) raises TypeError: float(None)
CloseRaises(candle) == CloseOrZero(candle) = Absent

\* a candle of the list makes the float() of the selection raise
AnyCloseRaises(candles) == \E i \in 1..Len(candles) : CloseRaises(candles[i])

\* the dates of the candles that have a timestamp that parses, in order of
\* first appearance (dict order)
RECURSIVE DatesInOrder(_, _)
DatesInOrder(ohlc, seen) ==
    IF ohlc = <<>> THEN <<>>
    ELSE IF ~Dated(Head(ohlc)) THEN DatesInOrder(Tail(ohlc), seen)
    ELSE LET d == DateOf(TimestampOf(Head(ohlc)))
         IN  IF d \in seen THEN DatesInOrder(Tail(ohlc), seen)
             ELSE <<d>> \o DatesInOrder(Tail(ohlc), seen \cup {d})

\* the union of the closest strikes of each candle with a positive close
RequiredStrikes(candles, available_strikes) ==
    UNION {Range(find_closest_strikes(CloseOrZero(candles[i]),
                                      available_strikes, 3)) :
             i \in {j \in 1..Len(candles) : CloseOrZero(candles[j]) > 0}}

\* the selection with two strikes for a candle instead of three
IdentifyRequiredStrikesTwo(ohlc, available_strikes) ==
    IF AnyCloseRaises(ohlc) THEN Raise
    ELSE Return(SortSet(
             UNION {Range(find_closest_strikes(CloseOrZero(ohlc[i]),
                                               available_strikes, 2)) :
                      i \in {j \in 1..Len(ohlc) : CloseOrZero(ohlc[j]) > 0}}))

\* identify_required_strikes(ohlc_data, available_strikes): the sorted list,
\* or the TypeError of a null close (line 69 is in no try)
identify_required_strikes(ohlc, available_strikes) ==
    IF AnyCloseRaises(ohlc) THEN Raise
    ELSE Return(SortSet(RequiredStrikes(ohlc, available_strikes)))

\* every date given the strikes of the candles of all dates
IdentifyRequiredStrikesUngrouped(ohlc, available_strikes) ==
    LET dates == DatesInOrder(ohlc, {})
    IN  IF AnyCloseRaises(ohlc) THEN Raise
        ELSE Return([k \in 1..Len(dates) |->
                 [date |-> dates[k],
                  strikes |-> SortSet(RequiredStrikes(ohlc,
                                                      available_strikes))]])

\* identify_required_strikes_by_date: a dict date -> sorted strikes, here the
\* sequence of its items; or the TypeError of a null close: of a candle
\* grouped by date at line 129, of any candle in the call of
\* identify_required_strikes at line 142 (neither is in a try)
identify_required_strikes_by_date(ohlc, available_strikes) ==
    LET dates == DatesInOrder(ohlc, {})
        OnDate(d) == LET Same(c) == /\ Dated(c)
                                    /\ DateOf(TimestampOf(c)) = d
                     IN  SelectSeq(ohlc, Same)
    IN  IF AnyCloseRaises(ohlc) THEN Raise
        ELSE Return([k \in 1..Len(dates) |->
                 [date |-> dates[k],
                  strikes |-> SortSet(RequiredStrikes(OnDate(dates[k]),
                                                      available_strikes))]])

(***************************************************************************)
(* Interpolation and alignment (utils.py).  An IV is an integer number of  *)
(* ten-thousandths; an interpolated IV is the exact fraction num/den, and  *)
(* None is NoIV.                                                           *)
(***************************************************************************)
NoIV == [num |-> 0, den |-> 0]

\* interpolate_iv(spot_price, strike_to_iv); strike_to_iv is a function
interpolate_iv(spot_price, strike_to_iv) ==
    IF DOMAIN strike_to_iv = {} THEN NoIV
    ELSE
    LET strikes == SortSet(DOMAIN strike_to_iv)
        lowers == {s \in DOMAIN strike_to_iv : s <= spot_price}
        uppers == {s \in DOMAIN strike_to_iv : s > spot_price}
    IN  IF lowers = {} THEN [num |-> strike_to_iv[strikes[1]], den |-> 1]
        ELSE IF uppers = {} THEN [num |-> strike_to_iv[Last(strikes)], den |-> 1]
        ELSE
        LET lower_strike == Last(SortSet(lowers))
            upper_strike == SortSet(uppers)[1]
            lower_iv == strike_to_iv[lower_strike]
            upper_iv == strike_to_iv[upper_strike]
        IN  \* lower_iv + weight * (upper_iv - lower_iv), over the common
            \* denominator upper_strike - lower_strike
            [num |-> lower_iv * (upper_strike - lower_strike)
                       + (spot_price - lower_strike) * (upper_iv - lower_iv),
             den |-> upper_strike - lower_strike]

\* record.get(field)
Get(record, field) == IF field \in DOMAIN record THEN record[field] ELSE Absent

\* a or b
Or(a, b) == IF Falsy(a) THEN b ELSE a

\* iv_value = point.get("iv") or point.get("iv_high") or point.get("iv_low")
IntradayIv(point) ==
    Or(Or(Get(point, "iv"), Get(point, "iv_high")), Get(point, "iv_low"))

\* iv_value = record.get("implied_volatility"), the field iv of a record here
HistoricIv(record) == Get(record, "iv")

\* iv_lookup[key]: for every strike with a usable observation under key, the
\* IV of the last one (later assignments overwrite earlier ones).
\* by_strike is the dict strike -> series as the sequence of its items;
\* KeyOf reads the key of an observation and ValueOf its iv_value, which is
\* usable when it is not None.
IvLookup(by_strike, key, KeyOf(_), ValueOf(_)) ==
    LET Usable(p) == KeyOf(p) = key /\ ValueOf(p) # Absent
        At(k) == SelectSeq(by_strike[k].series, Usable)
        hits == {k \in 1..Len(by_strike) : At(k) # <<>>}
        \* a strike is one key of the dict: its item is unique
    IN  [s \in {by_strike[k].strike : k \in hits} |->
            LET k == CHOOSE k \in hits : by_strike[k].strike = s
            IN  ValueOf(Last(At(k)))]

\* timestamp = point.get("start_time") or point.get("timestamp")
PointTime(p) == TimestampOf(p)
RecordDate(r) == r.date

\* if not timestamp or close_price is None: continue; close_price is
\* candle.get("close"), None for a missing key and for a null close alike
Alignable(candle) == Timestamped(candle) /\ Get(candle, "close") # Absent

\* one aligned point of a candle
AlignedPoint(candle, strike_to_iv) ==
    [timestamp |-> TimestampOf(candle),
     close |-> candle.close,
     iv |-> IF DOMAIN strike_to_iv # {}
            THEN interpolate_iv(candle.close, strike_to_iv) ELSE NoIV]

\* align_data_by_timestamp(ohlc_data, iv_data_by_strike)
align_data_by_timestamp(ohlc_data, iv_data_by_strike) ==
    LET ohlc == SelectSeq(ohlc_data, Alignable)
    IN  [i \in 1..Len(ohlc) |->
            AlignedPoint(ohlc[i],
                         IvLookup(iv_data_by_strike, TimestampOf(ohlc[i]),
                                  PointTime, IntradayIv))]

\* a candle whose timestamp does not parse is skipped as well
AlignableByDate(candle) == Alignable(candle) /\ Parses(TimestampOf(candle))

\* align_historic_data(ohlc_data, historic_iv_by_strike)
align_historic_data(ohlc_data, historic_iv_by_strike) ==
    LET ohlc == SelectSeq(ohlc_data, AlignableByDate)
    IN  [i \in 1..Len(ohlc) |->
            AlignedPoint(ohlc[i],
                         IvLookup(historic_iv_by_strike,
                                  DateOf(TimestampOf(ohlc[i])),
                                  RecordDate, HistoricIv))]


(***************************************************************************)
(* Contract discovery helpers (utils.py).  A date is a day number; day 0   *)
(* is a Monday, so date.weekday() is the day number modulo 7.              *)
(***************************************************************************)
Weekday(d) == d % 7

\* find_nearest_expiration(target_date), always the Friday that follows
find_next_friday(target_date) ==
    target_date + ((4 - Weekday(target_date)) % 7)

\* find_nearest_expiration(target_date)
find_nearest_expiration(target_date) ==
    LET days_until_friday == (4 - Weekday(target_date)) % 7
        next_friday == target_date + days_until_friday
        since == (Weekday(target_date) - 4) % 7
        days_since_friday == IF since = 0 THEN 7 ELSE since
        prev_friday == target_date - days_since_friday
    IN  IF days_until_friday = 0 THEN target_date
        ELSE IF Abs(next_friday - target_date) <= Abs(prev_friday - target_date)
             THEN next_friday
             ELSE prev_friday

\* the strike interval of a spot price: 2.5, 5, 10 or 25 dollars
StrikeInterval(spot_price) ==
    IF spot_price < 50000 THEN 2500
    ELSE IF spot_price < 200000 THEN 5000
    ELSE IF spot_price < 500000 THEN 10000
    ELSE 25000

\* round(n / d) for n >= 0: Python rounds a half to the even neighbour
RoundHalfEven(n, d) ==
    LET q == n \div d
        r == n % d
    IN  IF 2 * r < d THEN q
        ELSE IF 2 * r > d THEN q + 1
        ELSE IF q % 2 = 0 THEN q ELSE q + 1

\* the while loop of generate_smart_strikes
RECURSIVE SmartStrikeLoop(_, _, _, _, _)
SmartStrikeLoop(strikes, offset, atm_strike, interval, max_strikes) ==
    IF Len(strikes) >= max_strikes THEN strikes
    ELSE LET upper == atm_strike + offset * interval
             with_upper == IF upper > 0 THEN Append(strikes, upper) ELSE strikes
             lower == atm_strike - offset * interval
             with_lower == IF Len(with_upper) < max_strikes /\ lower > 0
                           THEN Append(with_upper, lower)
                           ELSE with_upper
         IN  SmartStrikeLoop(with_lower, offset + 1, atm_strike, interval,
                             max_strikes)

\* list.sort(key=lambda s: abs(s - spot_price)): a stable sort
RECURSIVE SortByDistance(_, _)
SortByDistance(strikes, spot_price) ==
    IF strikes = <<>> THEN <<>>
    ELSE LET front == SortByDistance(SubSeq(strikes, 1, Len(strikes) - 1),
                                     spot_price)
             s == Last(strikes)
             NotFarther(x) == Abs(x - spot_price) <= Abs(s - spot_price)
             Farther(x) == Abs(x - spot_price) > Abs(s - spot_price)
         IN  SelectSeq(front, NotFarther) \o <<s>> \o SelectSeq(front, Farther)

\* generate_smart_strikes(spot_price, max_strikes)
generate_smart_strikes(spot_price, max_strikes) ==
    LET interval == StrikeInterval(spot_price)
        atm_strike == RoundHalfEven(spot_price, interval) * interval
        strikes == SortByDistance(
                       SmartStrikeLoop(<<atm_strike>>, 1, atm_strike, interval,
                                       max_strikes),
                       spot_price)
    IN  SubSeq(strikes, 1, Min(max_strikes, Len(strikes)))

\* the contract symbol f"{ticker}{exp_str}{opt_type_code}{strike_code}", kept
\* as its four fields; the strike field is int(strike * 1000)
ContractId(ticker, exp_date, opt_type_code, strike) ==
    <<ticker, exp_date, opt_type_code, strike>>

OptTypeName(opt_type_code) == IF opt_type_code = "C" THEN "call" ELSE "put"

\* the first element of a non-empty sequence of dates closest to a target:
\* min(exp_dates, key=lambda d: abs((d - target_exp_date).days))
ClosestDate(exp_dates, target_exp_date) ==
    LET Dist(i) == Abs(exp_dates[i] - target_exp_date)
        best == CHOOSE i \in 1..Len(exp_dates) :
                    /\ \A j \in 1..Len(exp_dates) : Dist(i) <= Dist(j)
                    /\ \A j \in 1..(i - 1) : Dist(j) > Dist(i)
    IN  exp_dates[best]

\* the band reaching two weeks back
ExpirationsToTryTwoWeeksBack(target_exp_date, analysis_date, today, available_expirations) ==
    IF available_expirations # <<>> /\ analysis_date >= today
    THEN <<ClosestDate(available_expirations, target_exp_date)>>
    ELSE LET primary_exp == find_nearest_expiration(target_exp_date)
         IN  <<primary_exp - 14, primary_exp, primary_exp + 7>>

\* expirations_to_try of brute_force_find_contract
ExpirationsToTry(target_exp_date, analysis_date, today, available_expirations) ==
    IF available_expirations # <<>> /\ analysis_date >= today
    THEN <<ClosestDate(available_expirations, target_exp_date)>>
    ELSE LET primary_exp == find_nearest_expiration(target_exp_date)
         IN  <<primary_exp - 7, primary_exp, primary_exp + 7>>

\* the candidate probes of one expiration: strikes x option types
CandidateTasks(ticker, exp_date, strikes, option_types) ==
    [k \in 1..(Len(strikes) * Len(option_types)) |->
        LET strike == strikes[((k - 1) \div Len(option_types)) + 1]
            opt_type_code == option_types[((k - 1) % Len(option_types)) + 1]
        IN  [contract_id |-> ContractId(ticker, exp_date, opt_type_code, strike),
             exp_date |-> exp_date,
             option_type |-> OptTypeName(opt_type_code),
             strike |-> strike,
             date |-> 0]]

(***************************************************************************)
(* The outcome of one awaited fetch (get_option_historic,                  *)
(* get_option_intraday): the list the service returned, or an exception.   *)
(***************************************************************************)
Failure == [raised |-> TRUE, data |-> <<>>]
Ok(data) == [raised |-> FALSE, data |-> data]

HasIv(r) == ~Falsy(r.iv)

\* iv_chart.fetch_historic_for_strike without its try/except
FetchHistoricForStrikeUnguarded(strike, outcome) ==
    IF outcome.raised THEN Raise
    ELSE Return([strike |-> strike, data |-> SelectSeq(outcome.data, HasIv)])

\* iv_chart.fetch_historic_for_strike(strike, contract_id)
fetch_historic_for_strike(strike, outcome) ==
    IF outcome.raised THEN Return([strike |-> strike, data |-> <<>>])
    ELSE Return([strike |-> strike, data |-> SelectSeq(outcome.data, HasIv)])

\* iv_chart.fetch_iv_for_strike_date(strike, date, contract_id)
fetch_iv_for_strike_date(strike, outcome) ==
    IF outcome.raised THEN Return([strike |-> strike, data |-> <<>>])
    ELSE Return([strike |-> strike, data |-> outcome.data])

\* try_fetch_contract_iv(client, contract_id, analysis_date_str, ticker,
\*                       exp_date, option_type, strike)
try_fetch_contract_iv(task, ticker, analysis_date, outcome) ==
    IF outcome.raised THEN Return(None)
    ELSE LET Match(r) == r.date = analysis_date /\ HasIv(r)
             matches == SelectSeq(outcome.data, Match)
         IN  IF matches = <<>> THEN Return(None)
             ELSE Return([contract_id |-> task.contract_id,
                          parsed |-> [ticker |-> ticker,
                                      expiration |-> task.exp_date,
                                      type |-> task.option_type,
                                      strike |-> task.strike,
                                      symbol |-> task.contract_id],
                          iv_value |-> matches[1].iv * 100])

(***************************************************************************)
(* The fan-outs: the chart pipeline of iv_chart (bot.py) in its historic   *)
(* and intraday modes, and brute_force_find_contract (utils.py).  Each     *)
(* builds a list of coroutines, awaits asyncio.gather on them and then     *)
(* reads the results.                                                      *)
(***************************************************************************)
VARIABLES
    job,            \* which fan-out runs: "historic", "intraday", "discover"
    args,           \* its arguments
    tasks,          \* the coroutines handed to gather, in list order
    fetched,        \* per task: the outcome of its fetch, once it completed
    results,        \* the list gather returns, filled as tasks complete
    expirations,    \* expirations_to_try
    exp_idx,        \* the position of the for loop over expirations_to_try
    first_hit,      \* the first probe of this batch to complete successfully
    reordered,      \* a task completed before one that precedes it in the list
    fan_pc,         \* "idle", "gather", "done", "failed" (a task of the
                    \* gather raised), "error" (the strike selection did) or
                    \* "returned" (no strikes identified: no gather)
    iv_by_strike,   \* historic_iv_by_strike / iv_data_by_strike
    aligned_data,   \* the aligned series
    found           \* the value brute_force_find_contract returns

fanVars == <<job, args, tasks, fetched, results, expirations, exp_idx,
             first_hit, reordered, fan_pc, iv_by_strike, aligned_data, found>>

\* the number of calendar dates of the candles
NDates == 2

\* max_strikes of every call of generate_smart_strikes
MAX_STRIKES == 6

Ticker == "GLD"

\* the expiration the chart was asked for: a Friday
ChartExpiration == 18

\* the close prices of the candles; Absent is a null close
Closes == {Absent, 102000, 107000}

\* the candles the service can return for date d: one of each close, one
\* without the key close, and one whose timestamp does not parse
ChartCandlesOn(d) ==
    [start_time : {<<d, 1>>}, close : Closes]
        \cup {[start_time |-> <<d, 1>>],
              [start_time |-> Unparseable, close |-> 102000]}

\* strike_map of iv_chart: strike -> contract symbol of the expiration
StrikeMaps ==
    {[s \in S |-> ContractId(Ticker, ChartExpiration, "C", s)] :
        S \in {{100000}, {100000, 105000}}}

\* ohlc_data: one candle on each date
ChartCandles ==
    {ohlc \in [1..NDates -> UNION {ChartCandlesOn(d) : d \in 1..NDates}] :
        \A d \in 1..NDates : ohlc[d] \in ChartCandlesOn(d)}

\* what get_option_historic can answer for a chart contract
HistoricResponses ==
    {Failure,
     Ok(<<>>),
     Ok(<<[date |-> 1, iv |-> 2000]>>),
     Ok(<<[date |-> 1, iv |-> 0], [date |-> 2, iv |-> 2400]>>)}

\* what get_option_intraday can answer for a contract on date d
IntradayResponses(d) ==
    {Failure,
     Ok(<<>>),
     Ok(<<[start_time |-> <<d, 1>>, iv |-> 2000]>>),
     Ok(<<[start_time |-> <<1, 1>>, iv |-> 2400]>>)}

\* what get_option_historic can answer for a probed contract
ProbeResponses(analysis_date) ==
    {Failure,
     Ok(<<[date |-> analysis_date, iv |-> 0]>>),
     Ok(<<[date |-> analysis_date - 1, iv |-> 1800],
          [date |-> analysis_date, iv |-> 2000]>>)}

\* the arguments of brute_force_find_contract
TargetDates == {13, 16, 18}
SpotPrices == {102000}
OptionTypes == {<<>>, <<"C">>, <<"P">>}
AvailableExpirations == {<<>>, <<11, 25>>}
AnalysisDate == 3
Todays == {3, 40}

Pending == [pending |-> TRUE]
NotFetched == [done |-> FALSE, raised |-> FALSE, data |-> <<>>]
Fetched(outcome) ==
    [done |-> TRUE, raised |-> outcome.raised, data |-> outcome.data]

\* the exception object gather(return_exceptions=True) puts in its list
ExceptionObject == [exception |-> TRUE]

AllFetched == \A i \in 1..Len(tasks) : fetched[i].done

\* task i completes while a task before it in the list is still running
Overtakes(i) == \E j \in 1..(i - 1) : ~fetched[j].done

\* gather with the results in order of completion
StoreInCompletionOrder(res, i, v) ==
    LET k == CHOOSE k \in 1..Len(res) :
                 res[k] = Pending /\ \A j \in 1..(k - 1) : res[j] # Pending
    IN  [res EXCEPT ![k] = v]

\* asyncio.gather: the result of the i-th awaitable is the i-th of the list
Store(res, i, v) == [res EXCEPT ![i] = v]

\* the elements of a sequence in order of first appearance (dict key order)
RECURSIVE Distinct(_, _)
Distinct(seq, seen) ==
    IF seq = <<>> THEN <<>>
    ELSE IF Head(seq) \in seen THEN Distinct(Tail(seq), seen)
         ELSE <<Head(seq)>> \o Distinct(Tail(seq), seen \cup {Head(seq)})

ResultStrikes(res) == Distinct([i \in 1..Len(res) |-> res[i].strike], {})

\* for strike, historic_records in results:
\*     historic_iv_by_strike[strike] = historic_records
HistoricByStrike(res) ==
    LET keys == ResultStrikes(res)
    IN  [k \in 1..Len(keys) |->
            LET Mine(r) == r.strike = keys[k]
            IN  [strike |-> keys[k],
                 series |-> Last(SelectSeq(res, Mine)).data]]

\* for strike, intraday_data in results:
\*     iv_data_by_strike[strike].extend(intraday_data)
IntradayByStrike(res) ==
    LET keys == ResultStrikes(res)
    IN  [k \in 1..Len(keys) |->
            LET Mine(r) == r.strike = keys[k]
                mine == SelectSeq(res, Mine)
            IN  [strike |-> keys[k],
                 series |-> Flatten([i \in 1..Len(mine) |-> mine[i].data])]]

\* the first result by completion
FirstCompleted(res) ==
    IF first_hit = 0 THEN None ELSE res[first_hit]

\* for result in results: if result is not None and not an Exception: return
FirstSuccessful(res) ==
    LET IsHit(r) == r # None /\ r # ExceptionObject
        hits == SelectSeq(res, IsHit)
    IN  IF hits = <<>> THEN None ELSE hits[1]

\* the tasks of the chart: one per unique strike (historic), one per
\* (date, strike) (intraday)
HistoricTasks(ohlc, strike_map) ==
    LET strikes_by_date ==
            identify_required_strikes_by_date(
                ohlc, SortSet(DOMAIN strike_map)).value
        required_strikes ==
            SortSet(UNION {Range(strikes_by_date[k].strikes) :
                             k \in 1..Len(strikes_by_date)})
    IN  [k \in 1..Len(required_strikes) |->
            [strike |-> required_strikes[k], date |-> 0,
             contract_id |-> strike_map[required_strikes[k]]]]

IntradayTasks(ohlc, strike_map) ==
    LET strikes_by_date ==
            identify_required_strikes_by_date(
                ohlc, SortSet(DOMAIN strike_map)).value
    IN  Flatten([k \in 1..Len(strikes_by_date) |->
            [j \in 1..Len(strikes_by_date[k].strikes) |->
                [strike |-> strikes_by_date[k].strikes[j],
                 date |-> strikes_by_date[k].date,
                 contract_id |-> strike_map[strikes_by_date[k].strikes[j]]]]])

\* start awaiting gather(*tasks)
Gather(new_tasks) ==
    /\ tasks' = new_tasks
    /\ fetched' = [i \in 1..Len(new_tasks) |-> NotFetched]
    /\ results' = [i \in 1..Len(new_tasks) |-> Pending]
    /\ first_hit' = 0
    /\ reordered' = FALSE
    /\ fan_pc' = "gather"

\* identify_required_strikes_by_date raised in iv_chart: the exception
\* leaves the command through its `except Exception` (bot.py 1233)
SelectionRaises(ohlc, strike_map) ==
    identify_required_strikes_by_date(ohlc, SortSet(DOMAIN strike_map)).raised

ChartError ==
    /\ fan_pc' = "error"
    /\ UNCHANGED <<tasks, fetched, results, first_hit, reordered>>

\* `if not strikes_by_date`: no candle gave a calendar date
NoStrikesByDate(ohlc, strike_map) ==
    identify_required_strikes_by_date(
        ohlc, SortSet(DOMAIN strike_map)).value = <<>>

\* "Could not identify required strikes": iv_chart returns before any task
ChartReturn ==
    /\ fan_pc' = "returned"
    /\ UNCHANGED <<tasks, fetched, results, first_hit, reordered>>

\* iv_chart with days > 7, up to the gather
StartHistoric(ohlc, strike_map) ==
    /\ fan_pc = "idle"
    /\ job' = "historic"
    /\ args' = [ohlc |-> ohlc, strike_map |-> strike_map]
    /\ IF SelectionRaises(ohlc, strike_map) THEN ChartError
       ELSE IF NoStrikesByDate(ohlc, strike_map) THEN ChartReturn
       ELSE Gather(HistoricTasks(ohlc, strike_map))
    /\ UNCHANGED <<expirations, exp_idx, iv_by_strike, aligned_data, found>>

\* iv_chart with days <= 7, up to the gather
StartIntraday(ohlc, strike_map) ==
    /\ fan_pc = "idle"
    /\ job' = "intraday"
    /\ args' = [ohlc |-> ohlc, strike_map |-> strike_map]
    /\ IF SelectionRaises(ohlc, strike_map) THEN ChartError
       ELSE IF NoStrikesByDate(ohlc, strike_map) THEN ChartReturn
       ELSE Gather(IntradayTasks(ohlc, strike_map))
    /\ UNCHANGED <<expirations, exp_idx, iv_by_strike, aligned_data, found>>

\* brute_force_find_contract, up to the gather of the first expiration
StartDiscover(target_exp_date, spot_price, option_types, today,
              available_expirations) ==
    LET to_try == ExpirationsToTry(target_exp_date, AnalysisDate, today,
                                   available_expirations)
        strikes == generate_smart_strikes(spot_price, MAX_STRIKES)
    IN  /\ fan_pc = "idle"
        /\ job' = "discover"
        /\ args' = [target_exp_date |-> target_exp_date,
                    spot_price |-> spot_price,
                    analysis_date |-> AnalysisDate,
                    today |-> today,
                    option_types |-> option_types,
                    strikes |-> strikes]
        /\ expirations' = to_try
        /\ exp_idx' = 1
        /\ Gather(CandidateTasks(Ticker, to_try[1], strikes, option_types))
        /\ UNCHANGED <<iv_by_strike, aligned_data, found>>

\* a coroutine of a chart gather finishes: its exception would end the
\* gather, its value takes its place in the list
Finished(i, outcome, r) ==
    /\ fetched' = [fetched EXCEPT ![i] = Fetched(outcome)]
    /\ IF r.raised
       THEN fan_pc' = "failed" /\ UNCHANGED results
       ELSE results' = Store(results, i, r.value) /\ UNCHANGED fan_pc
    /\ reordered' = (reordered \/ Overtakes(i))
    /\ UNCHANGED <<job, args, tasks, expirations, exp_idx, first_hit,
                   iv_by_strike, aligned_data, found>>

\* one fetch_historic_for_strike runs to its end
CompleteHistoric(i) ==
    /\ fan_pc = "gather" /\ job = "historic"
    /\ i \in 1..Len(tasks) /\ ~fetched[i].done
    /\ \E outcome \in HistoricResponses :
          Finished(i, outcome,
                   fetch_historic_for_strike(tasks[i].strike, outcome))

\* one fetch_iv_for_strike_date runs to its end
CompleteIntraday(i) ==
    /\ fan_pc = "gather" /\ job = "intraday"
    /\ i \in 1..Len(tasks) /\ ~fetched[i].done
    /\ \E outcome \in IntradayResponses(tasks[i].date) :
          Finished(i, outcome,
                   fetch_iv_for_strike_date(tasks[i].strike, outcome))

\* one try_fetch_contract_iv runs to its end; gather(return_exceptions=True)
\* keeps an exception as the result
CompleteProbe(i) ==
    /\ fan_pc = "gather" /\ job = "discover"
    /\ i \in 1..Len(tasks) /\ ~fetched[i].done
    /\ \E outcome \in ProbeResponses(args.analysis_date) :
          LET r == try_fetch_contract_iv(tasks[i], Ticker, args.analysis_date,
                                         outcome)
              v == IF r.raised THEN ExceptionObject ELSE r.value
          IN  /\ fetched' = [fetched EXCEPT ![i] = Fetched(outcome)]
              /\ results' = Store(results, i, v)
              /\ first_hit' = IF first_hit = 0 /\ v # None /\ v # ExceptionObject
                              THEN i ELSE first_hit
    /\ reordered' = (reordered \/ Overtakes(i))
    /\ UNCHANGED <<job, args, tasks, expirations, exp_idx, fan_pc,
                   iv_by_strike, aligned_data, found>>

\* gather returned: organize the results and align (bot.py 1070-1076)
GatheredHistoric ==
    /\ fan_pc = "gather" /\ job = "historic" /\ AllFetched
    /\ iv_by_strike' = HistoricByStrike(results)
    /\ aligned_data' = align_historic_data(args.ohlc, HistoricByStrike(results))
    /\ fan_pc' = "done"
    /\ UNCHANGED <<job, args, tasks, fetched, results, expirations, exp_idx,
                   first_hit, reordered, found>>

\* gather returned: organize the results and align (bot.py 1129-1136)
GatheredIntraday ==
    /\ fan_pc = "gather" /\ job = "intraday" /\ AllFetched
    /\ iv_by_strike' = IntradayByStrike(results)
    /\ aligned_data' = align_data_by_timestamp(args.ohlc,
                                               IntradayByStrike(results))
    /\ fan_pc' = "done"
    /\ UNCHANGED <<job, args, tasks, fetched, results, expirations, exp_idx,
                   first_hit, reordered, found>>

\* gather returned: return the first successful result, else go on to the
\* next expiration, else return None (utils.py 593-601)
GatheredProbes ==
    /\ fan_pc = "gather" /\ job = "discover" /\ AllFetched
    /\ IF FirstSuccessful(results) # None
       THEN /\ found' = FirstSuccessful(results)
            /\ fan_pc' = "done"
            /\ UNCHANGED <<tasks, fetched, results, exp_idx, first_hit,
                           reordered>>
       ELSE IF exp_idx < Len(expirations)
       THEN /\ exp_idx' = exp_idx + 1
            /\ Gather(CandidateTasks(Ticker, expirations[exp_idx + 1],
                                     args.strikes, args.option_types))
            /\ UNCHANGED found
       ELSE /\ found' = None
            /\ fan_pc' = "done"
            /\ UNCHANGED <<tasks, fetched, results, exp_idx, first_hit,
                           reordered>>
    /\ UNCHANGED <<job, args, expirations, iv_by_strike, aligned_data>>

InitFanout ==
    /\ job = "none"
    /\ args = <<>>
    /\ tasks = <<>>
    /\ fetched = <<>>
    /\ results = <<>>
    /\ expirations = <<>>
    /\ exp_idx = 0
    /\ first_hit = 0
    /\ reordered = FALSE
    /\ fan_pc = "idle"
    /\ iv_by_strike = <<>>
    /\ aligned_data = <<>>
    /\ found = None

(***************************************************************************)
(* The earnings window of collect_earnings_iv_data (utils.py): for each    *)
(* past earnings date, the contracts of five DTE buckets are fetched on    *)
(* each day of the window; an earnings date more than 60 days old gets its *)
(* contracts from discover_contracts_for_period first.                     *)
(***************************************************************************)
VARIABLES
    e_pc,           \* "idle", "earnings", "ohlc", "chains", "expiry", "event",
                    \* "discover", "day", "dte", "request", "done" or
                    \* "error" (an exception left the function)
    e_in,           \* the arguments and what steps 1 to 3 fetched
    past_earnings,  \* the earnings dates to analyse, most recent first
    event_idx,      \* the position of the loop over past_earnings
    use_discovery,  \* the strategy of the current earnings date
    discovered,     \* discovered_contracts: DTE -> (exp_date, side) or None
    d_try,          \* discovery: the position in expirations_to_try
    d_type,         \* discovery: the position in option_types
    day_offset,     \* the position of the loop over the window
    dte_idx,        \* the position of the loops over dte_buckets
    candidates,     \* the contracts the current (day, DTE) will try, in order
    cand_idx,       \* the next of them
    dte_ivs,        \* the IVs found for the current day
    earnings_data_points,   \* the days of the current earnings date
    results_data,   \* results['data']
    nreq,           \* the number of get_option_historic requests so far
    last_request,   \* the latest of them
    disc_log,       \* every entry discover_contracts_for_period stored
    first_day       \* per (earnings date, DTE): its first day-loop request

earnVars == <<e_pc, e_in, past_earnings, event_idx, use_discovery, discovered,
              d_try, d_type, day_offset, dte_idx, candidates, cand_idx,
              dte_ivs, earnings_data_points, results_data, nreq, last_request,
              disc_log, first_day>>

\* days_window (7 by default)
DaysWindow == 1

\* num_earnings (3 by default)
NumEarnings == 2

\* datetime.now().date()
Today == 200

DTE_BUCKETS == <<14, 30, 60, 90, 180>>

\* option_type -> option_types
OptionTypeCodes(option_type) ==
    IF option_type = "call" THEN <<"C">>
    ELSE IF option_type = "put" THEN <<"P">>
    ELSE <<"C", "P">>

\* use_discovery = earnings_age_days > 60, never taken
UseDiscoveryNever(earnings_age_days) == FALSE

\* use_discovery = earnings_age_days > 60
UseDiscovery(earnings_age_days) == earnings_age_days > 60

\* sorted(list, reverse=True)
RECURSIVE SortedDesc(_)
SortedDesc(seq) ==
    IF seq = <<>> THEN <<>>
    ELSE LET i == CHOOSE i \in 1..Len(seq) :
                      /\ \A j \in 1..Len(seq) : seq[j] <= seq[i]
                      /\ \A j \in 1..(i - 1) : seq[j] < seq[i]
         IN  <<seq[i]>> \o SortedDesc(SubSeq(seq, 1, i - 1)
                                      \o SubSeq(seq, i + 1, Len(seq)))

\* the report dates before today, most recent first, at most num_earnings;
\* an event without a report_date reads as 0
PastEarnings(earnings_data, today, num_earnings) ==
    LET IsPast(d) == d # 0 /\ d < today
        past == SortedDesc(SelectSeq(earnings_data, IsPast))
    IN  SubSeq(past, 1, Min(num_earnings, Len(past)))

\* ohlc_by_date: the close of the last candle of each date
OhlcByDate(ohlc_data) ==
    [d \in {ohlc_data[i].date : i \in 1..Len(ohlc_data)} |->
        LET OnDate(c) == c.date = d
        IN  Last(SelectSeq(ohlc_data, OnDate)).close]

\* the dates the service has candles and option records for: the weekdays
\* around the earnings dates
MarketDays ==
    SortSet({d \in (96 - DaysWindow)..(104 + DaysWindow)
                   \cup (166 - DaysWindow)..(174 + DaysWindow) :
                Weekday(d) < 5})

\* get_ohlc_data: daily candles
OhlcKinds == {"flat", "moving", "gappy", "zero"}
OhlcData(kind) ==
    LET Traded(d) == kind # "gappy" \/ d # 99
        days == SelectSeq(MarketDays, Traded)
    IN  [i \in 1..Len(days) |->
            [date |-> days[i],
             close |-> IF kind = "flat" THEN 102000
                       ELSE IF kind = "zero"
                       THEN (IF days[i] = 171 THEN 0 ELSE 102000)
                       ELSE 100000 + 1000 * Weekday(days[i] + 1)]]

\* get_earnings: the report dates of the events
EarningsLists == {<<>>, <<100>>, <<102, 170>>, <<210, 100, 172>>, <<170, 170>>}

\* get_option_chains: the contracts listed today, one of them listed twice
Chains ==
    {<<>>,
     <<ContractId(Ticker, 186, "C", 100000),
       ContractId(Ticker, 182, "P", 105000),
       ContractId(Ticker, 186, "C", 112200),
       ContractId(Ticker, 186, "C", 100000)>>}

\* parsed_contracts[contract_id] = parsed, for each listed contract: a dict,
\* whose keys stand in order of their first assignment
RECURSIVE ParsedContracts(_)
ParsedContracts(contracts) ==
    IF contracts = <<>> THEN <<>>
    ELSE LET front == ParsedContracts(SubSeq(contracts, 1, Len(contracts) - 1))
         IN  IF Last(contracts) \in Range(front) THEN front
             ELSE Append(front, Last(contracts))

\* results['data'][earnings_date_str] = earnings_data_points: a dict, here
\* the sequence of its items; a key already there keeps its place
StoreResult(data, earnings_date, points) ==
    IF \E r \in 1..Len(data) : data[r].earnings_date = earnings_date
    THEN [r \in 1..Len(data) |->
            IF data[r].earnings_date = earnings_date
            THEN [earnings_date |-> earnings_date, points |-> points]
            ELSE data[r]]
    ELSE Append(data, [earnings_date |-> earnings_date, points |-> points])

\* the service: the weeks (modulo 3) whose Friday expirations have history,
\* the sides that have, the strike grid, what it does for a contract without
\* history, the dates without an IV, and which requests fail in transit
Services ==
    {svc \in [weeks : {{}, {0}, {0, 1, 2}},
               sides : {{"C", "P"}, {"P"}},
               grid : {5000, 10000},
               missing : {"raise", "empty"},
               no_iv : {{101}},
               fail_every : {0, 7}] :
        \* at most one departure from the plain service
        \/ svc.grid = 5000 /\ svc.missing = "raise"
        \/ svc.grid = 5000 /\ svc.fail_every = 0
        \/ svc.missing = "raise" /\ svc.fail_every = 0}

HasHistory(svc, contract_id) ==
    /\ ((contract_id[2] \div 7) % 3) \in svc.weeks
    /\ contract_id[3] \in svc.sides
    /\ contract_id[4] % svc.grid = 0

\* get_option_historic(contract_id), the n-th request of the run
HistoricAnswer(svc, contract_id, n) ==
    IF svc.fail_every > 0 /\ n % svc.fail_every = 0 THEN Failure
    ELSE IF HasHistory(svc, contract_id)
    THEN Ok([k \in 1..Len(MarketDays) |->
                [date |-> MarketDays[k],
                 iv |-> IF MarketDays[k] \in svc.no_iv THEN 0
                        ELSE 2000 + contract_id[2]]])
    ELSE IF svc.missing = "raise" THEN Failure
    ELSE Ok(<<>>)

\* a request or a discovery entry, as the history variables keep it
Entry(kind, event, dte, day, exp, side, strike) ==
    [kind |-> kind, event |-> event, dte |-> dte, day |-> day,
     exp |-> exp, side |-> side, strike |-> strike]

RequestEntry(kind, event, dte, day, contract_id) ==
    Entry(kind, event, dte, day, contract_id[2], contract_id[3],
          contract_id[4])

NoRequest == Entry("none", 0, 0, 0, 0, "", 0)

EarningsDate == past_earnings[event_idx]

\* any(record.get('date') == reference_date_str for record in records)
HasDataOn(answer, reference_date) ==
    /\ ~answer.raised
    /\ \E k \in 1..Len(answer.data) : answer.data[k].date = reference_date

OptTypeCode(opt_type_name) == IF opt_type_name = "call" THEN "C" ELSE "P"

\* the IV of the first record of the analysis date that has one, else 0
IvOn(answer, analysis_date) ==
    LET Match(r) == r.date = analysis_date /\ HasIv(r)
        matches == IF answer.raised THEN <<>>
                   ELSE SelectSeq(answer.data, Match)
    IN  IF matches = <<>> THEN 0 ELSE matches[1].iv * 100

\* the contracts of the day loop in discovery mode: the discovered
\* expiration and side, each strike of generate_smart_strikes(spot_price)
DiscoveryCandidates(discovered_info, spot_price) ==
    LET strikes == generate_smart_strikes(spot_price, MAX_STRIKES)
    IN  [k \in 1..Len(strikes) |->
            ContractId(Ticker, discovered_info.exp_date,
                       OptTypeCode(discovered_info.opt_type_name), strikes[k])]

\* list.sort(key=lambda x: x[2]): a stable sort by days_diff
RECURSIVE SortByDaysDiff(_, _)
SortByDaysDiff(contracts, target_exp_date) ==
    IF contracts = <<>> THEN <<>>
    ELSE LET front == SortByDaysDiff(SubSeq(contracts, 1, Len(contracts) - 1),
                                     target_exp_date)
             c == Last(contracts)
             NotFarther(x) ==
                 Abs(x[2] - target_exp_date) <= Abs(c[2] - target_exp_date)
             Farther(x) ==
                 Abs(x[2] - target_exp_date) > Abs(c[2] - target_exp_date)
         IN  SelectSeq(front, NotFarther) \o <<c>> \o SelectSeq(front, Farther)

\* strike_diff / spot_price <= 0.10 with strike_diff = abs(strike -
\* spot_price), in floats, for a spot price other than 0
WithinTenPercent(strike, spot_price) ==
    LET strike_diff == FloatAbs(FloatSub(FloatOfDecimal(strike, 1000),
                                         FloatOfDecimal(spot_price, 1000)))
    IN  FloatCmp(FloatDiv(strike_diff, FloatOfDecimal(spot_price, 1000)),
                 FloatOfDecimal(10, 100)) <= 0

\* the contracts with an expiration within 3 days of the target
NearContracts(parsed_contracts, target_exp_date) ==
    LET Near(c) == Abs(c[2] - target_exp_date) <= 3
    IN  SelectSeq(parsed_contracts, Near)

\* strike_diff / spot_price raises ZeroDivisionError: a spot price of 0.0
\* and a contract to divide for
ChainsDivideByZero(parsed_contracts, target_exp_date, spot_price) ==
    /\ spot_price = 0
    /\ NearContracts(parsed_contracts, target_exp_date) # <<>>

\* the contracts of the day loop in current-chains mode: expiration within
\* 3 days of the target, best match first, strike within 10% of the spot
ChainCandidates(parsed_contracts, target_exp_date, spot_price) ==
    LET AtTheMoney(c) == WithinTenPercent(c[4], spot_price)
    IN  SelectSeq(SortByDaysDiff(NearContracts(parsed_contracts,
                                               target_exp_date),
                                 target_exp_date),
                  AtTheMoney)

NoCandidates == <<>>
NoPoints == <<>>

\* collect_earnings_iv_data is called: option_types, up to the await of
\* get_earnings
StartCollect(option_type, svc) ==
    /\ e_pc = "idle"
    /\ e_pc' = "earnings"
    /\ e_in' = [option_types |-> OptionTypeCodes(option_type),
                days_window |-> DaysWindow,
                today |-> Today,
                ohlc_by_date |-> <<>>,
                parsed_contracts |-> <<>>,
                svc |-> svc]
    /\ UNCHANGED <<past_earnings, event_idx, use_discovery, discovered, d_try,
                   d_type, day_offset, dte_idx, candidates, cand_idx, dte_ivs,
                   earnings_data_points, results_data, nreq, last_request,
                   disc_log, first_day>>

\* step 1: get_earnings has answered; no earnings data is a ValueError
GotEarnings(earnings_data) ==
    /\ e_pc = "earnings"
    /\ IF earnings_data = <<>>
       THEN e_pc' = "error" /\ UNCHANGED past_earnings
       ELSE /\ e_pc' = "ohlc"
            /\ past_earnings' = PastEarnings(earnings_data, e_in.today,
                                             NumEarnings)
    /\ UNCHANGED <<e_in, event_idx, use_discovery, discovered, d_try, d_type,
                   day_offset, dte_idx, candidates, cand_idx, dte_ivs,
                   earnings_data_points, results_data, nreq, last_request,
                   disc_log, first_day>>

\* step 2: get_ohlc_data has answered
GotOhlc(ohlc_data) ==
    /\ e_pc = "ohlc"
    /\ e_pc' = "chains"
    /\ e_in' = [e_in EXCEPT !.ohlc_by_date = OhlcByDate(ohlc_data)]
    /\ UNCHANGED <<past_earnings, event_idx, use_discovery, discovered, d_try,
                   d_type, day_offset, dte_idx, candidates, cand_idx, dte_ivs,
                   earnings_data_points, results_data, nreq, last_request,
                   disc_log, first_day>>

\* step 3: get_option_chains has answered
GotChains(contracts) ==
    /\ e_pc = "chains"
    /\ e_pc' = "expiry"
    /\ e_in' = [e_in EXCEPT !.parsed_contracts = ParsedContracts(contracts)]
    /\ UNCHANGED <<past_earnings, event_idx, use_discovery, discovered, d_try,
                   d_type, day_offset, dte_idx, candidates, cand_idx, dte_ivs,
                   earnings_data_points, results_data, nreq, last_request,
                   disc_log, first_day>>

\* step 3.5: get_expiry_breakdown has answered or raised; its answer is
\* not read again, and the loop over past_earnings starts
GotExpiries ==
    /\ e_pc = "expiry"
    /\ e_pc' = "event"
    /\ event_idx' = 1
    /\ UNCHANGED <<e_in, past_earnings, use_discovery, discovered, d_try,
                   d_type, day_offset, dte_idx, candidates, cand_idx, dte_ivs,
                   earnings_data_points, results_data, nreq, last_request,
                   disc_log, first_day>>

\* the head of the loop over past_earnings: choose the strategy; an old
\* earnings date without a candle on its first analysis date is skipped
BeginEvent ==
    /\ e_pc = "event"
    /\ IF event_idx > Len(past_earnings)
       THEN /\ e_pc' = "done"
            /\ UNCHANGED <<event_idx, use_discovery, discovered, dte_idx,
                           day_offset, earnings_data_points>>
       ELSE IF UseDiscovery(e_in.today - EarningsDate)
       THEN IF (EarningsDate - e_in.days_window) \notin DOMAIN e_in.ohlc_by_date
            THEN /\ event_idx' = event_idx + 1
                 /\ UNCHANGED <<e_pc, use_discovery, discovered, dte_idx,
                                day_offset, earnings_data_points>>
            ELSE /\ e_pc' = "discover"
                 /\ use_discovery' = TRUE
                 /\ discovered' = <<>>
                 /\ dte_idx' = 1
                 /\ UNCHANGED <<event_idx, day_offset, earnings_data_points>>
       ELSE /\ e_pc' = "day"
            /\ use_discovery' = FALSE
            /\ discovered' = <<>>
            /\ day_offset' = 0 - e_in.days_window
            /\ earnings_data_points' = NoPoints
            /\ UNCHANGED <<event_idx, dte_idx>>
    /\ d_try' = 1
    /\ d_type' = 1
    /\ UNCHANGED <<e_in, past_earnings, candidates, cand_idx, dte_ivs,
                   results_data, nreq, last_request, disc_log, first_day>>

\* discover_contracts_for_period: one get_option_historic of the loops over
\* dte_buckets, expirations_to_try and option_types
DiscoverProbe ==
    LET target_dte == DTE_BUCKETS[dte_idx]
        reference_date == EarningsDate - e_in.days_window
        spot_price == e_in.ohlc_by_date[reference_date]
        primary_exp == find_nearest_expiration(reference_date + target_dte)
        expirations_to_try == <<primary_exp - 7, primary_exp, primary_exp + 7>>
        exp_date == expirations_to_try[d_try]
        test_strike == generate_smart_strikes(spot_price, MAX_STRIKES)[1]
        opt_type_code == e_in.option_types[d_type]
        contract_id == ContractId(Ticker, exp_date, opt_type_code, test_strike)
        has_data == HasDataOn(HistoricAnswer(e_in.svc, contract_id, nreq + 1),
                              reference_date)
        request == RequestEntry("probe", EarningsDate, target_dte,
                                reference_date, contract_id)
        exhausted == d_type = Len(e_in.option_types)
                     /\ d_try = Len(expirations_to_try)
        Decided(info, entry) ==
            /\ discovered' = (target_dte :> info) @@ discovered
            /\ disc_log' = Append(disc_log, entry)
            /\ d_try' = 1
            /\ d_type' = 1
            /\ IF dte_idx < Len(DTE_BUCKETS)
               THEN /\ dte_idx' = dte_idx + 1
                    /\ UNCHANGED <<e_pc, day_offset, earnings_data_points>>
               ELSE /\ e_pc' = "day"
                    /\ dte_idx' = 1
                    /\ day_offset' = 0 - e_in.days_window
                    /\ earnings_data_points' = NoPoints
    IN  /\ e_pc = "discover"
        /\ IF has_data
           THEN Decided([exp_date |-> exp_date,
                         opt_type_name |-> OptTypeName(opt_type_code)],
                        Entry("discovered", EarningsDate, target_dte,
                              reference_date, exp_date, opt_type_code, 0))
           ELSE IF exhausted
           THEN Decided(None,
                        Entry("nothing", EarningsDate, target_dte,
                              reference_date, 0, "", 0))
           ELSE /\ UNCHANGED disc_log
                /\ IF d_type < Len(e_in.option_types)
                   THEN d_type' = d_type + 1 /\ UNCHANGED d_try
                   ELSE d_type' = 1 /\ d_try' = d_try + 1
                /\ UNCHANGED <<e_pc, discovered, dte_idx, day_offset,
                               earnings_data_points>>
        /\ nreq' = nreq + 1
        /\ last_request' = request
        /\ UNCHANGED <<e_in, past_earnings, event_idx, use_discovery,
                       candidates, cand_idx, dte_ivs, results_data, first_day>>

\* the head of the loop over day offsets: weekends and days without a candle
\* are skipped; after the last day the earnings date's points are stored
BeginDay ==
    LET analysis_date == EarningsDate + day_offset
    IN  /\ e_pc = "day"
        /\ IF day_offset > e_in.days_window
           THEN /\ results_data' = StoreResult(results_data, EarningsDate,
                                               earnings_data_points)
                /\ event_idx' = event_idx + 1
                /\ e_pc' = "event"
                /\ UNCHANGED <<day_offset, dte_idx, dte_ivs>>
           ELSE IF \/ Weekday(analysis_date) >= 5
                   \/ analysis_date \notin DOMAIN e_in.ohlc_by_date
           THEN /\ day_offset' = day_offset + 1
                /\ UNCHANGED <<e_pc, event_idx, dte_idx, dte_ivs, results_data>>
           ELSE /\ e_pc' = "dte"
                /\ dte_idx' = 1
                /\ dte_ivs' = <<>>
                /\ UNCHANGED <<event_idx, day_offset, results_data>>
        /\ UNCHANGED <<e_in, past_earnings, use_discovery, discovered, d_try,
                       d_type, candidates, cand_idx, earnings_data_points,
                       nreq, last_request, disc_log, first_day>>

\* the head of the loop over dte_buckets within a day: a bucket without a
\* discovered contract is passed over; in current-chains mode a spot price
\* of 0 ends the run with ZeroDivisionError; after the last bucket the day
\* is stored
BeginDte ==
    LET analysis_date == EarningsDate + day_offset
        spot_price == e_in.ohlc_by_date[analysis_date]
        target_dte == DTE_BUCKETS[dte_idx]
        to_try ==
            IF use_discovery
            THEN IF discovered[target_dte] = None THEN NoCandidates
                 ELSE DiscoveryCandidates(discovered[target_dte], spot_price)
            ELSE ChainCandidates(e_in.parsed_contracts,
                                 analysis_date + target_dte, spot_price)
        divides_by_zero ==
            /\ ~use_discovery
            /\ ChainsDivideByZero(e_in.parsed_contracts,
                                  analysis_date + target_dte, spot_price)
    IN  /\ e_pc = "dte"
        /\ IF dte_idx > Len(DTE_BUCKETS)
           THEN /\ earnings_data_points' =
                       Append(earnings_data_points,
                              [day_offset |-> day_offset,
                               ivs |-> dte_ivs,
                               spot_price |-> spot_price])
                /\ day_offset' = day_offset + 1
                /\ e_pc' = "day"
                /\ UNCHANGED <<dte_idx, candidates, cand_idx>>
           ELSE IF divides_by_zero
           THEN /\ e_pc' = "error"
                /\ UNCHANGED <<dte_idx, day_offset, candidates, cand_idx,
                               earnings_data_points>>
           ELSE IF to_try = NoCandidates
           THEN /\ dte_idx' = dte_idx + 1
                /\ UNCHANGED <<e_pc, day_offset, candidates, cand_idx,
                               earnings_data_points>>
           ELSE /\ candidates' = to_try
                /\ cand_idx' = 1
                /\ e_pc' = "request"
                /\ UNCHANGED <<dte_idx, day_offset, earnings_data_points>>
        /\ UNCHANGED <<e_in, past_earnings, event_idx, use_discovery,
                       discovered, d_try, d_type, dte_ivs, results_data, nreq,
                       last_request, disc_log, first_day>>

\* one get_option_historic of the day loop: the first contract with an IV
\* on the analysis date ends the bucket
DayRequest ==
    LET analysis_date == EarningsDate + day_offset
        target_dte == DTE_BUCKETS[dte_idx]
        contract_id == candidates[cand_idx]
        iv_value == IvOn(HistoricAnswer(e_in.svc, contract_id, nreq + 1),
                         analysis_date)
        request == RequestEntry(IF use_discovery THEN "day" ELSE "chains",
                                EarningsDate, target_dte, analysis_date,
                                contract_id)
        key == <<EarningsDate, target_dte>>
    IN  /\ e_pc = "request"
        /\ nreq' = nreq + 1
        /\ last_request' = request
        /\ first_day' = IF key \in DOMAIN first_day THEN first_day
                        ELSE (key :> request) @@ first_day
        /\ IF iv_value # 0
           THEN /\ dte_ivs' = (target_dte :> iv_value) @@ dte_ivs
                /\ dte_idx' = dte_idx + 1
                /\ e_pc' = "dte"
                /\ candidates' = NoCandidates
                /\ cand_idx' = 1
           ELSE IF cand_idx < Len(candidates)
           THEN /\ cand_idx' = cand_idx + 1
                /\ UNCHANGED <<e_pc, dte_idx, dte_ivs, candidates>>
           ELSE /\ dte_idx' = dte_idx + 1
                /\ e_pc' = "dte"
                /\ candidates' = NoCandidates
                /\ cand_idx' = 1
                /\ UNCHANGED dte_ivs
        /\ UNCHANGED <<e_in, past_earnings, event_idx, use_discovery,
                       discovered, d_try, d_type, day_offset,
                       earnings_data_points, results_data, disc_log>>

InitEarnings ==
    /\ e_pc = "idle"
    /\ e_in = <<>>
    /\ past_earnings = <<>>
    /\ event_idx = 1
    /\ use_discovery = FALSE
    /\ discovered = <<>>
    /\ d_try = 1
    /\ d_type = 1
    /\ day_offset = 0
    /\ dte_idx = 1
    /\ candidates = NoCandidates
    /\ cand_idx = 1
    /\ dte_ivs = <<>>
    /\ earnings_data_points = NoPoints
    /\ results_data = <<>>
    /\ nreq = 0
    /\ last_request = NoRequest
    /\ disc_log = <<>>
    /\ first_day = <<>>

(***************************************************************************)
(* The contract symbol codec.  A string is a sequence of one-character     *)
(* strings.  The characters drawn are digits, letters, '.', ' ', '+' and   *)
(* '-'; numeric literals with an exponent, an underscore, "inf" or "nan"   *)
(* need characters outside this alphabet.                                  *)
(***************************************************************************)
DigitChars == <<"0", "1", "2", "3", "4", "5", "6", "7", "8", "9">>

IsDigit(c) == c \in Range(DigitChars)

DigitValue(c) == (CHOOSE i \in 1..Len(DigitChars) : DigitChars[i] = c) - 1

\* the number written by a sequence of digits
RECURSIVE DecimalValue(_)
DecimalValue(digits) ==
    IF digits = <<>> THEN 0
    ELSE 10 * DecimalValue(SubSeq(digits, 1, Len(digits) - 1))
         + DigitValue(Last(digits))

RECURSIVE Pow10(_)
Pow10(k) == IF k = 0 THEN 1 ELSE 10 * Pow10(k - 1)

\* str.strip() over these characters
RECURSIVE StripSpaces(_)
StripSpaces(s) ==
    IF s = <<>> THEN s
    ELSE IF s[1] = " " THEN StripSpaces(Tail(s))
    ELSE IF Last(s) = " " THEN StripSpaces(SubSeq(s, 1, Len(s) - 1))
    ELSE s

\* a literal without its surrounding spaces and its sign
Unsigned(s) ==
    LET t == StripSpaces(s)
    IN  IF t # <<>> /\ t[1] \in {"+", "-"} THEN Tail(t) ELSE t

Negative(s) ==
    LET t == StripSpaces(s)
    IN  t # <<>> /\ t[1] = "-"

\* int(s): spaces around, a sign, then digits only
ParseInt(s) ==
    LET body == Unsigned(s)
    IN  IF body # <<>> /\ \A i \in 1..Len(body) : IsDigit(body[i])
        THEN Return(IF Negative(s) THEN 0 - DecimalValue(body)
                    ELSE DecimalValue(body))
        ELSE Raise

\* float(s): spaces around, a sign, then digits with at most one point and
\* at least one digit; the value is the float nearest the decimal
ParseFloat(s) ==
    LET body == Unsigned(s)
        points == {i \in 1..Len(body) : body[i] = "."}
        digits == SelectSeq(body, IsDigit)
        decimals == IF points = {} THEN 0
                    ELSE Len(body) - (CHOOSE i \in points : TRUE)
        magnitude == FloatOfDecimal(DecimalValue(digits), Pow10(decimals))
    IN  IF /\ \A i \in 1..Len(body) : IsDigit(body[i]) \/ body[i] = "."
           /\ Cardinality(points) <= 1
           /\ digits # <<>>
        THEN Return([magnitude EXCEPT !.sign = IF Negative(s) THEN 1 ELSE 0])
        ELSE Raise

RECURSIVE DigitsOf(_)
DigitsOf(n) ==
    IF n < 10 THEN <<DigitChars[n + 1]>>
    ELSE Append(DigitsOf(n \div 10), DigitChars[(n % 10) + 1])

\* f"{n:0{width}d}": the sign, then zeros up to the width, then the digits
FormatInt(n, width) ==
    LET digits == DigitsOf(Abs(n))
        sign == IF n < 0 THEN <<"-">> ELSE <<>>
        pad == width - Len(sign) - Len(digits)
    IN  sign \o [i \in 1..pad |-> "0"] \o digits

\* "call" if option_type == "C" else "put"
OptionTypeOnlyPIsPut(option_type) ==
    IF option_type = "P" THEN "put" ELSE "call"

OptionType(option_type) ==
    IF option_type = "C" THEN "call" ELSE "put"

\* UnusualWhalesClient.parse_option_symbol(option_symbol): the dict it
\* returns, or the ValueError it raises
parse_option_symbol(option_symbol) ==
    IF Len(option_symbol) < 15 THEN Raise
    ELSE
    LET n == Len(option_symbol)
        strike_str == SubSeq(option_symbol, n - 7, n)
        option_type == option_symbol[n - 8]
        date_str == SubSeq(option_symbol, n - 14, n - 9)
        ticker == SubSeq(option_symbol, 1, n - 15)
        strike_number == ParseFloat(strike_str)
        year == ParseInt(SubSeq(date_str, 1, 2))
        month == ParseInt(SubSeq(date_str, 3, 4))
        day == ParseInt(SubSeq(date_str, 5, 6))
    IN  IF strike_number.raised \/ year.raised \/ month.raised \/ day.raised
        THEN Raise
        ELSE Return([ticker |-> ticker,
                     expiration |-> FormatInt(2000 + year.value, 4) \o <<"-">>
                                    \o FormatInt(month.value, 2) \o <<"-">>
                                    \o FormatInt(day.value, 2),
                     type |-> OptionType(option_type),
                     strike |-> FloatDiv(strike_number.value, FloatOfInt(1000)),
                     symbol |-> option_symbol])

\* A date is a record of year, month and day.
IsLeapYear(year) ==
    year % 4 = 0 /\ (year % 100 # 0 \/ year % 400 = 0)

DaysInMonth(year, month) ==
    IF month = 2 THEN (IF IsLeapYear(year) THEN 29 ELSE 28)
    ELSE IF month \in {4, 6, 9, 11} THEN 30
    ELSE 31

IsDate(year, month, day) ==
    /\ year \in 1..9999
    /\ month \in 1..12
    /\ day \in 1..DaysInMonth(year, month)

\* exp_date.strftime("%y%m%d")
StrftimeShort(exp_date) ==
    FormatInt(exp_date.year % 100, 2) \o FormatInt(exp_date.month, 2)
    \o FormatInt(exp_date.day, 2)

\* exp_date.strftime("%Y-%m-%d")
StrftimeIso(exp_date) ==
    FormatInt(exp_date.year, 4) \o <<"-">> \o FormatInt(exp_date.month, 2)
    \o <<"-">> \o FormatInt(exp_date.day, 2)

\* datetime.strptime(s, "%Y-%m-%d") of a string as parse_option_symbol
\* formats it: a date, or a ValueError
Strptime(s) ==
    LET year == DecimalValue(SubSeq(s, 1, 4))
        month == DecimalValue(SubSeq(s, 6, 7))
        day == DecimalValue(SubSeq(s, 9, 10))
    IN  IF /\ Len(s) = 10
           /\ s[5] = "-" /\ s[8] = "-"
           /\ \A i \in (1..10) \ {5, 8} : IsDigit(s[i])
           /\ IsDate(year, month, day)
        THEN Return([year |-> year, month |-> month, day |-> day])
        ELSE Raise

\* strike_code = f"{int(strike * 1000):08d}"
StrikeCode(strike) ==
    FormatInt(FloatToInt(FloatMul(strike, FloatOfInt(1000))), 8)

\* contract_id = f"{ticker}{exp_str}{opt_type_code}{strike_code}"
FormatContractId(ticker, exp_date, opt_type_code, strike) ==
    ticker \o StrftimeShort(exp_date) \o <<opt_type_code>> \o StrikeCode(strike)

\* the identifier built from the fields of a parsed symbol, as the day loop
\* of collect_earnings_iv_data reads them
FormatParsed(parsed_symbol) ==
    LET exp_date == Strptime(parsed_symbol.expiration)
    IN  IF exp_date.raised THEN Raise
        ELSE Return(FormatContractId(parsed_symbol.ticker, exp_date.value,
                                     OptTypeCode(parsed_symbol.type),
                                     parsed_symbol.strike))

(***************************************************************************)
(* The symbol codec on drawn inputs: a symbol is parsed and the parsed     *)
(* fields are formatted again; a contract is formatted and the identifier  *)
(* is parsed again.                                                        *)
(***************************************************************************)
VARIABLES
    c_pc,        \* "idle", "parsed", "symbol_round_trip", "encoded",
                 \* "contract_round_trip"
    c_symbol,    \* the option_symbol given to parse_option_symbol
    c_parsed,    \* what parse_option_symbol returned or raised
    c_contract,  \* the ticker, exp_date, opt_type_code and strike formatted
    c_encoded    \* the contract_id formatted from them

codecVars == <<c_pc, c_symbol, c_parsed, c_contract, c_encoded>>

MaxStrikeOffset == 3

Tickers == {<<"A">>, <<"X", "1">>, <<"A", "A", "P", "L">>}

ExpirationDates ==
    {[year |-> 2025, month |-> 10, day |-> 17],
     [year |-> 2000, month |-> 2, day |-> 29],
     [year |-> 2099, month |-> 12, day |-> 31]}

\* strikes in thousandths of a dollar
StrikeThousandths ==
    {1, 500, 150000, 152500, 99999999}
    \cup {1000 + k : k \in 0..MaxStrikeOffset}

\* the float a strike of so many thousandths is written as
StrikeOf(thousandths) == FloatOfDecimal(thousandths, 1000)

Contracts ==
    [ticker : Tickers, exp_date : ExpirationDates, opt_type_code : {"C", "P"},
     strike : {StrikeOf(k) : k \in StrikeThousandths}]

DateFields ==
    {<<"2", "5", "1", "0", "1", "7">>,
     <<"0", "0", "0", "2", "2", "9">>,
     <<"9", "9", "9", "9", "9", "9">>}

StrikeFields ==
    {<<"0", "0", "1", "5", "0", "0", "0", "0">>,
     <<"0", "0", "0", "0", "1", "0", "0", "1">>,
     <<"0", "0", "0", "0", "0", "0", "0", "0">>,
     <<"9", "9", "9", "9", "9", "9", "9", "9">>}

SideChars == {"C", "P", "X"}

MutationChars == {"X", " ", ".", "-", "+"}

\* a field with one character replaced
Mutate(field) ==
    {[field EXCEPT ![i] = c] : i \in 1..Len(field), c \in MutationChars}

ExampleSymbol ==
    <<"A", "A", "P", "L", "2", "5", "1", "0", "1", "7", "C",
      "0", "0", "1", "5", "0", "0", "0", "0">>

ExamplePrefix == SubSeq(ExampleSymbol, 1, 4)
ExampleDate == SubSeq(ExampleSymbol, 5, 10)
ExampleStrike == SubSeq(ExampleSymbol, 12, 19)

\* the symbols parsed: digits in place under every prefix and side
\* character; one character of the date or of the strike replaced; and the
\* ends of the example of fewer than 15 characters
Symbols ==
    {ticker \o date \o <<side>> \o strike :
        ticker \in Tickers \cup {<<>>}, date \in DateFields,
        side \in SideChars, strike \in StrikeFields}
    \cup {ExamplePrefix \o date \o <<"C">> \o ExampleStrike :
            date \in UNION {Mutate(d) : d \in DateFields}}
    \cup {ExamplePrefix \o ExampleDate \o <<"C">> \o strike :
            strike \in UNION {Mutate(s) : s \in StrikeFields}}
    \cup {SubSeq(ExampleSymbol, k, Len(ExampleSymbol)) :
            k \in 6..(Len(ExampleSymbol) + 1)}

ParseSymbol(option_symbol) ==
    /\ c_pc = "idle"
    /\ c_pc' = "parsed"
    /\ c_symbol' = option_symbol
    /\ c_parsed' = parse_option_symbol(option_symbol)
    /\ UNCHANGED <<c_contract, c_encoded>>

EncodeParsed ==
    /\ c_pc = "parsed"
    /\ ~c_parsed.raised
    /\ c_pc' = "symbol_round_trip"
    /\ c_encoded' = FormatParsed(c_parsed.value)
    /\ UNCHANGED <<c_symbol, c_parsed, c_contract>>

EncodeContract(contract) ==
    /\ c_pc = "idle"
    /\ c_pc' = "encoded"
    /\ c_contract' = contract
    /\ c_encoded' = Return(FormatContractId(contract.ticker, contract.exp_date,
                                            contract.opt_type_code,
                                            contract.strike))
    /\ UNCHANGED <<c_symbol, c_parsed>>

ParseEncoded ==
    /\ c_pc = "encoded"
    /\ c_pc' = "contract_round_trip"
    /\ c_symbol' = c_encoded.value
    /\ c_parsed' = parse_option_symbol(c_encoded.value)
    /\ UNCHANGED <<c_contract, c_encoded>>

InitCodec ==
    /\ c_pc = "idle"
    /\ c_symbol = <<>>
    /\ c_parsed = None
    /\ c_contract = None
    /\ c_encoded = None

(***************************************************************************)
(* The strike selector on drawn inputs.                                    *)
(***************************************************************************)
VARIABLES
    k_pc,   \* "idle", or "closest", "required", "smart", "nearest" after a call
    k_in,   \* the arguments of the call
    k_out   \* what it returned

strikeVars == <<k_pc, k_in, k_out>>

MaxNumStrikes == 3

StrikeGrid == {145000, 150000, 155000, 160000}

Reverse(seq) == [i \in 1..Len(seq) |-> seq[Len(seq) + 1 - i]]

\* available_strikes: every subset of the grid, ascending and descending,
\* and a list that holds a strike twice
AvailableLists ==
    {SortSet(S) : S \in SUBSET StrikeGrid}
    \cup {Reverse(SortSet(S)) : S \in SUBSET StrikeGrid}
    \cup {<<150000, 150000, 155000>>}

SelectorSpots ==
    {140000, 145000, 147500, 150000, 152300, 155000, 157500, 160000, 165000}

ExampleStrikes == <<95000, 100000, 105000, 195000, 200000, 205000, 210000>>

RequiredAvailable ==
    {ExampleStrikes, Reverse(ExampleStrikes), <<>>, <<100000>>,
     <<95000, 100000, 105000>>}

\* the closes of the candles of one date; Absent is a null close
DayCloses ==
    {<<>>, <<100000>>, <<100000, 101000, 99000>>, <<200000, 205000>>,
     <<0>>, <<102000, Absent>>, <<99000, 200000>>}

CandlesOf(date, closes) ==
    [i \in 1..Len(closes) |->
        [start_time |-> <<date, i>>, close |-> closes[i]]]

\* candles without the key start_time: one without any timestamp, one that
\* has its timestamp under the key timestamp; one whose start_time does not
\* parse; one without a timestamp whose close is null; and one without
\* the key close
Untimed == [start_time |-> NoTimestamp, close |-> 205000]
UntimedNull == [start_time |-> NoTimestamp, close |-> Absent]
Unpriced == [start_time |-> <<1, 9>>]
Undated == [start_time |-> Unparseable, close |-> 205000]
TimedByTimestamp ==
    [start_time |-> NoTimestamp, timestamp |-> <<2, 1>>, close |-> 200000]

\* ohlc_data: the candles of date 1 then those of date 2, or a candle of
\* date 2 ahead of them, or a candle without a date ahead of them, or a
\* candle without a close after them
CandleSeries ==
    {CandlesOf(1, c1) \o CandlesOf(2, c2) : c1 \in DayCloses, c2 \in DayCloses}
    \cup {CandlesOf(2, <<205000>>) \o CandlesOf(1, c1) \o CandlesOf(2, <<200000>>) :
            c1 \in DayCloses}
    \cup {<<Untimed>> \o CandlesOf(1, c1) : c1 \in DayCloses}
    \cup {<<Undated>> \o CandlesOf(1, c1) : c1 \in DayCloses}
    \cup {<<TimedByTimestamp>> \o CandlesOf(1, c1) : c1 \in DayCloses}
    \cup {<<UntimedNull>> \o CandlesOf(1, c1) : c1 \in DayCloses}
    \cup {CandlesOf(1, c1) \o <<Unpriced>> : c1 \in DayCloses}

Closest(spot_price, available_strikes, num_strikes) ==
    /\ k_pc = "idle"
    /\ k_pc' = "closest"
    /\ k_in' = [spot_price |-> spot_price,
                available_strikes |-> available_strikes,
                num_strikes |-> num_strikes]
    /\ k_out' = find_closest_strikes(spot_price, available_strikes, num_strikes)

Required(ohlc_data, available_strikes) ==
    /\ k_pc = "idle"
    /\ k_pc' = "required"
    /\ k_in' = [ohlc_data |-> ohlc_data,
                available_strikes |-> available_strikes]
    /\ k_out' = [by_date |-> identify_required_strikes_by_date(
                                 ohlc_data, available_strikes),
                 full_range |-> identify_required_strikes(
                                    ohlc_data, available_strikes)]

\* the strike counts asked of generate_smart_strikes
MaxStrikesAsked == 4

\* spot prices of generate_smart_strikes, in thousandths of a dollar: each
\* tier, its edges, prices on and off the grid and halfway between strikes
SmartSpots ==
    {1, 1000, 1250, 1251, 3750, 6250, 47500, 49999, 50000, 52500, 102000,
     197500, 199999, 200000, 205000, 437000, 499999, 500000, 512500, 987654}

SmartStrikes(spot_price, max_strikes) ==
    /\ k_pc = "idle"
    /\ k_pc' = "smart"
    /\ k_in' = [spot_price |-> spot_price, max_strikes |-> max_strikes]
    /\ k_out' = generate_smart_strikes(spot_price, max_strikes)

\* the target dates of find_nearest_expiration
MaxTargetDate == 20

NearestExpiration(target_date) ==
    /\ k_pc = "idle"
    /\ k_pc' = "nearest"
    /\ k_in' = [target_date |-> target_date]
    /\ k_out' = find_nearest_expiration(target_date)

InitStrikes ==
    /\ k_pc = "idle"
    /\ k_in = None
    /\ k_out = None

(***************************************************************************)
(* The interpolation in floats, on drawn inputs.                           *)
(***************************************************************************)
VARIABLES
    i_pc,   \* "idle", or "done", "intraday", "historic" after a call
    i_in,   \* spot_price and strike_to_iv
    i_out   \* the float returned, or None

interpVars == <<i_pc, i_in, i_out>>

MaxMapSize == 4

FloatMin(S) == CHOOSE x \in S : \A y \in S : FloatCmp(x, y) <= 0
FloatMax(S) == CHOOSE x \in S : \A y \in S : FloatCmp(x, y) >= 0

\* weight = (spot_price - lower_strike) / (upper_strike - lower_strike);
\* lower_iv + weight * (upper_iv - lower_iv)
Interpolate(spot_price, lower_strike, upper_strike, lower_iv, upper_iv) ==
    LET weight == FloatDiv(FloatSub(spot_price, lower_strike),
                           FloatSub(upper_strike, lower_strike))
    IN  FloatAdd(lower_iv, FloatMul(weight, FloatSub(upper_iv, lower_iv)))

\* sorted(strike_to_iv.keys())
RECURSIVE SortedFloats(_)
SortedFloats(S) ==
    IF S = {} THEN <<>>
    ELSE <<FloatMin(S)>> \o SortedFloats(S \ {FloatMin(S)})

RECURSIVE BracketingStrikes(_, _, _, _)
\* the loop keeping the first strike <= spot_price it meets
BracketingStrikesFirstLower(strikes, spot_price, lower_strike, upper_strike) ==
    IF strikes = <<>>
    THEN [lower_strike |-> lower_strike, upper_strike |-> upper_strike]
    ELSE LET strike == Head(strikes)
         IN  BracketingStrikes(
                 Tail(strikes), spot_price,
                 IF FloatCmp(strike, spot_price) <= 0 /\ lower_strike = None
                 THEN strike ELSE lower_strike,
                 IF FloatCmp(strike, spot_price) > 0 /\ upper_strike = None
                 THEN strike ELSE upper_strike)

\* the loop over the sorted strikes: lower_strike is overwritten by every
\* strike <= spot_price, upper_strike is set by the first strike > spot_price
BracketingStrikes(strikes, spot_price, lower_strike, upper_strike) ==
    IF strikes = <<>>
    THEN [lower_strike |-> lower_strike, upper_strike |-> upper_strike]
    ELSE LET strike == Head(strikes)
         IN  BracketingStrikes(
                 Tail(strikes), spot_price,
                 IF FloatCmp(strike, spot_price) <= 0
                 THEN strike ELSE lower_strike,
                 IF FloatCmp(strike, spot_price) > 0 /\ upper_strike = None
                 THEN strike ELSE upper_strike)

\* interpolate_iv(spot_price, strike_to_iv) as Python computes it: the
\* arguments and the result are floats, strike_to_iv is a function
interpolate_iv_float(spot_price, strike_to_iv) ==
    IF DOMAIN strike_to_iv = {} THEN None
    ELSE
    LET strikes == SortedFloats(DOMAIN strike_to_iv)
        bracket == BracketingStrikes(strikes, spot_price, None, None)
    IN  IF bracket.lower_strike = None THEN strike_to_iv[strikes[1]]
        ELSE IF bracket.upper_strike = None
        THEN strike_to_iv[strikes[Len(strikes)]]
        ELSE IF bracket.lower_strike = bracket.upper_strike
        THEN strike_to_iv[bracket.lower_strike]
        ELSE Interpolate(spot_price, bracket.lower_strike, bracket.upper_strike,
                         strike_to_iv[bracket.lower_strike],
                         strike_to_iv[bracket.upper_strike])

\* the float next to a positive x toward zero
FloatBelow(x) ==
    LET shift == IF x.mant = <<1>> THEN MantissaBits
                 ELSE MantissaBits - BigBitLen(x.mant)
    IN  Float(x.sign, BigSub(BigShl(x.mant, shift), <<1>>), x.exp - shift)

\* strikes in thousandths and IVs in ten-thousandths, as decimals
InterpStrikes == {1400, 5900, 150000, 155000}
InterpIvs == {6461, 18633}

IvOf(ten_thousandths) == FloatOfDecimal(ten_thousandths, 10000)

\* the dict whose items are written in decimals by f
FloatMap(f) ==
    [x \in {StrikeOf(s) : s \in DOMAIN f} |->
        IvOf(f[CHOOSE s \in DOMAIN f : StrikeOf(s) = x])]

StrikeMapsToIv ==
    {FloatMap(f) :
        f \in UNION {[S -> InterpIvs] :
                       S \in {T \in SUBSET InterpStrikes :
                                Cardinality(T) <= MaxMapSize}}}

\* spots written in decimals, and the floats just below each strike
InterpSpots ==
    {StrikeOf(p) : p \in {1000, 1400, 3650, 5900, 100000, 152300, 155000,
                         160000}}
    \cup {FloatBelow(StrikeOf(s)) : s \in InterpStrikes}

InterpolateIv(spot_price, strike_to_iv) ==
    /\ i_pc = "idle"
    /\ i_pc' = "done"
    /\ i_in' = [spot_price |-> spot_price, strike_to_iv |-> strike_to_iv]
    /\ i_out' = interpolate_iv_float(spot_price, strike_to_iv)

MaxCandles == 2

\* candles with and without a timestamp, with a close and with a null one,
\* one that has its timestamp under the key timestamp and one without the
\* key close
AlignCandles ==
    LET candle == [start_time : {NoTimestamp, <<1, 1>>, <<2, 1>>},
                   close : {Absent, 102000}]
                  \cup {[start_time |-> NoTimestamp, timestamp |-> <<1, 1>>,
                         close |-> 102000],
                        [start_time |-> <<1, 1>>]}
    IN  UNION {[1..n -> candle] : n \in 0..MaxCandles}

\* the IV of an observation: a number, zero included, or null
AlignIvs == {Absent, 0, 2000, 2400}

\* the observations of one strike, keyed by KeyField
AlignSeries(KeyField(_, _)) ==
    {<<>>}
    \cup {<<KeyField(1, v)>> : v \in AlignIvs}
    \cup {<<KeyField(2, 2000)>>,
          <<KeyField(1, 2000), KeyField(1, 2400)>>,
          <<KeyField(1, 2400), KeyField(1, Absent)>>}

\* the dict strike -> series, as the sequence of its items
AlignByStrike(KeyField(_, _)) ==
    {<<>>}
    \cup {<<[strike |-> 100000, series |-> s1]>> :
            s1 \in AlignSeries(KeyField)}
    \cup {<<[strike |-> 100000, series |-> s1],
            [strike |-> 105000, series |-> s2]>> :
            s1 \in AlignSeries(KeyField), s2 \in AlignSeries(KeyField)}

IntradayPoint(d, v) == [start_time |-> <<d, 1>>, iv |-> v]
HistoricRecord(d, v) == [date |-> d, iv |-> v]

AlignByTimestamp(ohlc_data, iv_data_by_strike) ==
    /\ i_pc = "idle"
    /\ i_pc' = "intraday"
    /\ i_in' = [ohlc_data |-> ohlc_data, by_strike |-> iv_data_by_strike]
    /\ i_out' = align_data_by_timestamp(ohlc_data, iv_data_by_strike)

AlignByDate(ohlc_data, historic_iv_by_strike) ==
    /\ i_pc = "idle"
    /\ i_pc' = "historic"
    /\ i_in' = [ohlc_data |-> ohlc_data, by_strike |-> historic_iv_by_strike]
    /\ i_out' = align_historic_data(ohlc_data, historic_iv_by_strike)

InitInterp ==
    /\ i_pc = "idle"
    /\ i_in = None
    /\ i_out = None

pureVars == <<codecVars, strikeVars, interpVars>>

InitPure == InitCodec /\ InitStrikes /\ InitInterp

(***************************************************************************)
(* The specifications.  Each one runs one part of the program and leaves   *)
(* the others in their initial state.                                      *)
(***************************************************************************)
vars == <<clientVars, fanVars, earnVars, pureVars>>

\* The arguments of _request_with_retry, in ms.  The repository's call
\* sites pass the defaults (3, 1.0 s, 30.0 s); the model draws small ones
\* so that both the doubling and the cap fall within the clock's range.
BaseDelays == {25, 50}
MaxDelays == {40, 75}

\* Several callers of one client, one retry allowed; as with the defaults,
\* a backoff is no shorter than REQUEST_DELAY.
Init ==
    /\ InitClient
    /\ max_retries = 2
    /\ base_delay = REQUEST_DELAY
    /\ max_delay = 2 * REQUEST_DELAY
    /\ InitFanout
    /\ InitEarnings
    /\ InitPure

ClientStep(c) ==
    \/ Call(c)
    \/ RateWake(c)
    \/ \E s \in Outcomes : Respond(c, s)
    \/ BackoffWake(c)

Next ==
    \/ (\E c \in Callers : ClientStep(c)) /\ UNCHANGED <<fanVars, earnVars, pureVars>>
    \/ (\E c \in Callers : Acquire(c)) /\ UNCHANGED <<fanVars, earnVars, pureVars>>
    \/ Tick /\ UNCHANGED <<fanVars, earnVars, pureVars>>

Spec == Init /\ [][Next]_vars

\* time passes to the end of the next pending sleep: the event loop's clock
\* has no end, and only the sleeps read it
TickWhileAsleep ==
    LET asleep == {c \in Callers : pc[c] \in {"rate_sleep", "backoff"}
                                     /\ wake[c] > now}
    IN  /\ asleep # {}
        /\ now' = SetMin({wake[c] : c \in asleep})
        /\ UNCHANGED <<last_request_time, permits, max_retries, base_delay,
                       max_delay, pc, wake, attempt, ndispatched,
                       last_dispatch, closest_gap, statuses, delays, result>>

\* what the service answers in the liveness runs: the first four callers,
\* who take the slots, leave each by another exit path (a response, an error
\* status, a transport exception, rate limits to the last attempt); the
\* fifth, who may have to wait, is answered anything, and any further caller
\* gets a response
LiveOutcomes(c) ==
    CASE c = 1 -> {200}
      [] c = 2 -> {500}
      [] c = 3 -> {0}
      [] c = 4 -> {429}
      [] c = 5 -> Outcomes
      [] OTHER -> {200}

LiveStep(c) ==
    \/ Call(c)
    \/ RateWake(c)
    \/ \E s \in LiveOutcomes(c) : Respond(c, s)
    \/ BackoffWake(c)

NextLive ==
    \/ (\E c \in Callers : LiveStep(c)) /\ UNCHANGED <<fanVars, earnVars, pureVars>>
    \/ (\E c \in Callers : Acquire(c)) /\ UNCHANGED <<fanVars, earnVars, pureVars>>
    \/ TickWhileAsleep /\ UNCHANGED <<fanVars, earnVars, pureVars>>

\* The client under the event loop's scheduling: time passes, a sleep that is
\* over resumes its caller, a released slot is handed to a waiter, and every
\* HTTP attempt returns.  Nothing makes a caller call.
Fairness ==
    LET Rest == UNCHANGED <<fanVars, earnVars, pureVars>>
    IN  /\ WF_vars(TickWhileAsleep /\ Rest)
        /\ \A c \in Callers :
              /\ WF_vars(RateWake(c) /\ Rest)
              /\ WF_vars(BackoffWake(c) /\ Rest)
              /\ WF_vars(Acquire(c) /\ Rest)
              /\ WF_vars((\E s \in LiveOutcomes(c) : Respond(c, s)) /\ Rest)

SpecLive == Init /\ [][NextLive]_vars /\ Fairness

\* The retry loop under every drawn combination of its arguments.
InitRetry ==
    /\ InitClient
    /\ max_retries \in 1..MaxRetries
    /\ base_delay \in BaseDelays
    /\ max_delay \in MaxDelays
    /\ InitFanout
    /\ InitEarnings
    /\ InitPure

NextRetry ==
    \/ (\E c \in 1..NRetryCallers : ClientStep(c)) /\ UNCHANGED <<fanVars, earnVars, pureVars>>
    \/ Tick /\ UNCHANGED <<fanVars, earnVars, pureVars>>

SpecRetry == InitRetry /\ [][NextRetry]_vars

\* The fan-outs, over a client that is left alone: the outcome of each
\* fetch is all the fan-out sees of it.
InitFan ==
    /\ InitClient
    /\ max_retries = MaxRetries
    /\ base_delay = REQUEST_DELAY
    /\ max_delay = 2 * REQUEST_DELAY
    /\ InitFanout
    /\ InitEarnings
    /\ InitPure

NextFanout ==
    \/ (\E ohlc \in ChartCandles, strike_map \in StrikeMaps :
           StartHistoric(ohlc, strike_map)) /\ UNCHANGED <<clientVars, earnVars, pureVars>>
    \/ (\E ohlc \in ChartCandles, strike_map \in StrikeMaps :
           StartIntraday(ohlc, strike_map)) /\ UNCHANGED <<clientVars, earnVars, pureVars>>
    \/ (\E target_exp_date \in TargetDates, spot_price \in SpotPrices,
           option_types \in OptionTypes, today \in Todays,
           available_expirations \in AvailableExpirations :
           StartDiscover(target_exp_date, spot_price, option_types, today,
                         available_expirations)) /\ UNCHANGED <<clientVars, earnVars, pureVars>>
    \/ (\E i \in 1..Len(tasks) : CompleteHistoric(i)) /\ UNCHANGED <<clientVars, earnVars, pureVars>>
    \/ (\E i \in 1..Len(tasks) : CompleteIntraday(i)) /\ UNCHANGED <<clientVars, earnVars, pureVars>>
    \/ (\E i \in 1..Len(tasks) : CompleteProbe(i)) /\ UNCHANGED <<clientVars, earnVars, pureVars>>
    \/ GatheredHistoric /\ UNCHANGED <<clientVars, earnVars, pureVars>>
    \/ GatheredIntraday /\ UNCHANGED <<clientVars, earnVars, pureVars>>
    \/ GatheredProbes /\ UNCHANGED <<clientVars, earnVars, pureVars>>

SpecFanout == InitFan /\ [][NextFanout]_vars

\* The earnings window, over a service fixed at the start of the run.
InitEarn ==
    /\ InitClient
    /\ max_retries = MaxRetries
    /\ base_delay = REQUEST_DELAY
    /\ max_delay = 2 * REQUEST_DELAY
    /\ InitFanout
    /\ InitEarnings
    /\ InitPure

NextEarnings ==
    \/ /\ e_pc = "idle"
       /\ \E option_type \in {"call", "put", "both"}, svc \in Services :
             StartCollect(option_type, svc)
       /\ UNCHANGED <<clientVars, fanVars, pureVars>>
    \/ (\E earnings_data \in EarningsLists : GotEarnings(earnings_data))
       /\ UNCHANGED <<clientVars, fanVars, pureVars>>
    \/ (\E kind \in OhlcKinds : GotOhlc(OhlcData(kind)))
       /\ UNCHANGED <<clientVars, fanVars, pureVars>>
    \/ (\E contracts \in Chains : GotChains(contracts))
       /\ UNCHANGED <<clientVars, fanVars, pureVars>>
    \/ GotExpiries /\ UNCHANGED <<clientVars, fanVars, pureVars>>
    \/ BeginEvent /\ UNCHANGED <<clientVars, fanVars, pureVars>>
    \/ DiscoverProbe /\ UNCHANGED <<clientVars, fanVars, pureVars>>
    \/ BeginDay /\ UNCHANGED <<clientVars, fanVars, pureVars>>
    \/ BeginDte /\ UNCHANGED <<clientVars, fanVars, pureVars>>
    \/ DayRequest /\ UNCHANGED <<clientVars, fanVars, pureVars>>

SpecEarnings == InitEarn /\ [][NextEarnings]_vars

\* The pure functions, each applied once to an input drawn from its set;
\* the rest of the program is left in its initial state.
InitRest ==
    /\ InitClient
    /\ max_retries = MaxRetries
    /\ base_delay = REQUEST_DELAY
    /\ max_delay = 2 * REQUEST_DELAY
    /\ InitFanout
    /\ InitEarnings
    /\ InitPure

NextCodec ==
    \/ /\ c_pc = "idle"
       /\ \E option_symbol \in Symbols : ParseSymbol(option_symbol)
       /\ UNCHANGED <<clientVars, fanVars, earnVars, strikeVars, interpVars>>
    \/ EncodeParsed
       /\ UNCHANGED <<clientVars, fanVars, earnVars, strikeVars, interpVars>>
    \/ /\ c_pc = "idle"
       /\ \E contract \in Contracts : EncodeContract(contract)
       /\ UNCHANGED <<clientVars, fanVars, earnVars, strikeVars, interpVars>>
    \/ ParseEncoded
       /\ UNCHANGED <<clientVars, fanVars, earnVars, strikeVars, interpVars>>

SpecCodec == InitRest /\ [][NextCodec]_vars

NextStrikes ==
    \/ /\ k_pc = "idle"
       /\ \E spot_price \in SelectorSpots, available_strikes \in AvailableLists,
             num_strikes \in 1..MaxNumStrikes :
             Closest(spot_price, available_strikes, num_strikes)
       /\ UNCHANGED <<clientVars, fanVars, earnVars, codecVars, interpVars>>
    \/ /\ k_pc = "idle"
       /\ \E ohlc_data \in CandleSeries, available_strikes \in RequiredAvailable :
             Required(ohlc_data, available_strikes)
       /\ UNCHANGED <<clientVars, fanVars, earnVars, codecVars, interpVars>>

    \/ /\ k_pc = "idle"
       /\ \E spot_price \in SmartSpots, max_strikes \in 1..MaxStrikesAsked :
             SmartStrikes(spot_price, max_strikes)
       /\ UNCHANGED <<clientVars, fanVars, earnVars, codecVars, interpVars>>
    \/ /\ k_pc = "idle"
       /\ \E target_date \in 0..MaxTargetDate : NearestExpiration(target_date)
       /\ UNCHANGED <<clientVars, fanVars, earnVars, codecVars, interpVars>>

SpecStrikes == InitRest /\ [][NextStrikes]_vars

NextInterp ==
    \/ /\ i_pc = "idle"
       /\ \E spot_price \in InterpSpots, strike_to_iv \in StrikeMapsToIv :
             InterpolateIv(spot_price, strike_to_iv)
       /\ UNCHANGED <<clientVars, fanVars, earnVars, codecVars, strikeVars>>
    \/ /\ i_pc = "idle"
       /\ \E ohlc_data \in AlignCandles,
             iv_data_by_strike \in AlignByStrike(IntradayPoint) :
             AlignByTimestamp(ohlc_data, iv_data_by_strike)
       /\ UNCHANGED <<clientVars, fanVars, earnVars, codecVars, strikeVars>>
    \/ /\ i_pc = "idle"
       /\ \E ohlc_data \in AlignCandles,
             historic_iv_by_strike \in AlignByStrike(HistoricRecord) :
             AlignByDate(ohlc_data, historic_iv_by_strike)
       /\ UNCHANGED <<clientVars, fanVars, earnVars, codecVars, strikeVars>>

SpecInterp == InitRest /\ [][NextInterp]_vars

(***************************************************************************)
(* The fetch client's claims.                                              *)
(***************************************************************************)
\* callers past slot acquisition and not finished
InFlight == {c \in Callers : pc[c] \in {"rate_sleep", "in_flight", "backoff"}}

\* every attempt of c so far was answered 429, and there was one
AllRateLimited(c) ==
    /\ Len(statuses[c]) > 0
    /\ \A i \in 1..Len(statuses[c]) : statuses[c][i] = 429

\* C1: any two requests dispatched through one client instance, by the same
\* caller or by callers holding different slots, are dispatched at least
\* REQUEST_DELAY apart.
C1_MinSpacing == closest_gap >= REQUEST_DELAY

\* C2: at most MAX_CONCURRENT_REQUESTS calls are past slot acquisition and
\* not finished (sleeping for the rate limit, in flight, or in backoff); a
\* caller is admitted only when a slot is free, and one that arrives with
\* every slot held is suspended.
C2_ConcurrencyCeiling ==
    [][/\ Cardinality(InFlight') <= MAX_CONCURRENT_REQUESTS
       /\ \A c \in Callers :
            /\ (c \notin InFlight /\ c \in InFlight')
                  => Cardinality(InFlight) < MAX_CONCURRENT_REQUESTS
            /\ (pc[c] = "idle" /\ pc'[c] # "idle"
                  /\ Cardinality(InFlight) = MAX_CONCURRENT_REQUESTS)
                  => pc'[c] = "waiting"]_vars

\* every slot is held and a further caller is suspended
C2_Witness ==
    /\ Cardinality(InFlight) = MAX_CONCURRENT_REQUESTS
    /\ \E c \in Callers : pc[c] = "waiting"
    /\ \E c \in Callers : pc[c] = "backoff"

\* C3: when every attempt of a call is answered 429, the call dispatches
\* exactly max_retries attempts, sleeps a backoff between consecutive
\* attempts only (max_retries - 1 of them, none after the last) and raises
\* the HTTPStatusError of the last response; it never returns a response.
C3_RateLimitExhausted ==
    \A c \in Callers :
        AllRateLimited(c) =>
            /\ ndispatched[c] <= max_retries
            /\ Len(delays[c]) <= max_retries - 1
            /\ result[c].kind # "response"
            /\ pc[c] = "done" =>
                  /\ ndispatched[c] = max_retries
                  /\ Len(statuses[c]) = max_retries
                  /\ Len(delays[c]) = max_retries - 1
                  /\ result[c] = [kind |-> "HTTPStatusError", status |-> 429,
                                  attempt |-> max_retries - 1]

\* a call of three attempts, all answered 429, has failed
C3_Witness ==
    \E c \in Callers :
        /\ pc[c] = "done"
        /\ AllRateLimited(c)
        /\ max_retries = 3
        /\ Len(delays[c]) = 2

\* C4: an error status other than 429, on the first attempt or on a retry,
\* ends the call at once with that status: it is the last attempt
\* dispatched, and no backoff follows it.
C4_OtherStatusFailsAtOnce ==
    \A c \in Callers :
        \A i \in 1..Len(statuses[c]) :
            (statuses[c][i] >= 400 /\ statuses[c][i] # 429) =>
                /\ i = Len(statuses[c])
                /\ pc[c] = "done"
                /\ ndispatched[c] = i
                /\ Len(delays[c]) = i - 1
                /\ result[c] = [kind |-> "HTTPStatusError",
                                status |-> statuses[c][i], attempt |-> i - 1]

\* a retry was answered 500 with attempts still remaining
C4_Witness ==
    \E c \in Callers :
        /\ pc[c] = "done"
        /\ Len(statuses[c]) = 2
        /\ statuses[c][2] = 500
        /\ max_retries = 3

\* C5: the delay before the Nth retry of a call is
\* min(base_delay * 2^(N-1), max_delay); the delays never decrease and never
\* exceed max_delay.
C5_BackoffSequence ==
    \A c \in Callers :
        \A n \in 1..Len(delays[c]) :
            /\ delays[c][n] = Min(base_delay * Pow2(n - 1), max_delay)
            /\ delays[c][n] <= max_delay
            /\ n > 1 => delays[c][n - 1] <= delays[c][n]

\* two retries, the second delay cut by the cap
C5_Witness ==
    \E c \in Callers :
        /\ Len(delays[c]) = 2
        /\ delays[c][1] < max_delay
        /\ base_delay * 2 > max_delay
        /\ delays[c][2] = max_delay

(***************************************************************************)
(* The fan-outs' claims.                                                   *)
(***************************************************************************)
Tasks == 1..Len(tasks)

ChartJob == job \in {"historic", "intraday"}

\* the outcome of task i has an observation the fan-out can use
Usable(i) ==
    /\ fetched[i].done
    /\ ~fetched[i].raised
    /\ CASE job = "historic" ->
              \E k \in 1..Len(fetched[i].data) : fetched[i].data[k].iv # 0
         [] job = "intraday" -> fetched[i].data # <<>>
         [] OTHER ->
              \E k \in 1..Len(fetched[i].data) :
                  /\ fetched[i].data[k].date = args.analysis_date
                  /\ fetched[i].data[k].iv # 0

\* what task i contributes to the batch
Contribution(i) == IF ChartJob THEN results[i].data ELSE results[i]

\* what the data of a chart task's fetch is kept as
Kept(i) ==
    IF job = "historic"
    THEN LET WithIv(r) == r.iv # 0 IN SelectSeq(fetched[i].data, WithIv)
    ELSE fetched[i].data

IsPartOf(sub, seq) ==
    \E a \in 0..(Len(seq) - Len(sub)) : SubSeq(seq, a + 1, a + Len(sub)) = sub

\* C6: in every fan-out the batch never fails; a task whose fetch raised
\* contributes an empty list (chart) or None (probe) and nothing else changes:
\* every other task of the batch is fetched to its end before the batch is
\* read, and what it returned is kept in the results and in the strike map.
C6_FailureIsolated ==
    /\ fan_pc # "failed"
    /\ \A i \in Tasks :
          fetched[i].done =>
             /\ fetched[i].raised /\ ChartJob =>
                   results[i] = [strike |-> tasks[i].strike, data |-> <<>>]
             /\ fetched[i].raised /\ ~ChartJob => results[i] = None
             /\ ~fetched[i].raised /\ ChartJob =>
                   results[i] = [strike |-> tasks[i].strike, data |-> Kept(i)]
             /\ Usable(i) /\ ~ChartJob =>
                   /\ results[i] # None
                   /\ results[i].contract_id = tasks[i].contract_id
    /\ fan_pc = "done" => AllFetched
    /\ fan_pc = "done" /\ ChartJob =>
          \A i \in Tasks :
              \E k \in 1..Len(iv_by_strike) :
                  /\ iv_by_strike[k].strike = tasks[i].strike
                  /\ IsPartOf(results[i].data, iv_by_strike[k].series)
    /\ fan_pc = "done" /\ ~ChartJob /\ (\E i \in Tasks : Usable(i)) =>
          found # None

\* an intraday batch ended in which one fetch raised and a sibling's data
\* reached the aligned series
C6_Witness ==
    /\ fan_pc = "done" /\ job = "intraday"
    /\ \E i, j \in Tasks :
          /\ fetched[i].raised
          /\ Usable(j)
    /\ \E k \in 1..Len(aligned_data) : aligned_data[k].iv # NoIV

\* C7: a fetch that raised and a fetch that succeeded without a usable
\* observation never leave the same value: of two completed tasks of a
\* batch, one of each kind, the contributions differ.
C7_NoDataDistinctFromFailure ==
    \A i, j \in Tasks :
        /\ fetched[i].done /\ fetched[i].raised
        /\ fetched[j].done /\ ~fetched[j].raised /\ ~Usable(j)
        => Contribution(i) # Contribution(j)

\* the successful probes of the batch, by position in the candidate list
Hits == {i \in Tasks : Usable(i)}

\* C8 as stated: brute_force_find_contract returns the successful probe that
\* completed first.
C8_ReturnsFirstCompleted ==
    fan_pc = "done" /\ job = "discover" /\ found # None =>
        found = results[first_hit]

\* C8 as amended: brute_force_find_contract returns the successful probe
\* that comes first in the candidate list of the first expiration with a
\* success, whatever the order in which the probes completed; it returns
\* None when no probe of any expiration succeeded.
C8_ReturnsFirstCandidate ==
    fan_pc = "done" /\ job = "discover" =>
        IF Hits = {}
        THEN found = None /\ exp_idx = Len(expirations)
        ELSE /\ found = results[SetMin(Hits)]
             /\ found.contract_id = tasks[SetMin(Hits)].contract_id

\* two probes succeeded, the later one of the list completed first, and the
\* earlier one of the list was returned
C8_Witness ==
    /\ fan_pc = "done" /\ job = "discover"
    /\ Cardinality(Hits) >= 2
    /\ first_hit # SetMin(Hits)
    /\ found = results[SetMin(Hits)]

\* the results of the chart's tasks, read in list order from the fetches
InTaskOrder ==
    [i \in Tasks |->
        [strike |-> tasks[i].strike,
         data |-> IF fetched[i].raised THEN <<>> ELSE Kept(i)]]

\* C9: the aligned series of the chart is a function of the candles and of
\* the responses, read in the order of the task list: the order in which the
\* fetches completed has no part in it.
C9_OrderIrrelevant ==
    fan_pc = "done" /\ ChartJob =>
        aligned_data =
            IF job = "historic"
            THEN align_historic_data(args.ohlc, HistoricByStrike(InTaskOrder))
            ELSE align_data_by_timestamp(args.ohlc,
                                         IntradayByStrike(InTaskOrder))

\* an intraday chart ended whose fetches completed out of list order, two
\* of them for one strike with different IVs at one timestamp
C9_Witness ==
    /\ fan_pc = "done" /\ job = "intraday" /\ reordered
    /\ \E i, j \in Tasks :
          /\ i < j
          /\ tasks[i].strike = tasks[j].strike
          /\ Usable(i) /\ Usable(j)
          /\ fetched[i].data[1].start_time = fetched[j].data[1].start_time
          /\ fetched[i].data[1].iv # fetched[j].data[1].iv
    /\ \E k \in 1..Len(aligned_data) : aligned_data[k].iv # NoIV

(***************************************************************************)
(* The earnings window's claims.                                           *)
(***************************************************************************)
OldEvent(earnings_date) == Today - earnings_date > 60

\* the entries discovery stored for a DTE bucket of an earnings date
Decisions(earnings_date, target_dte) ==
    {i \in 1..Len(disc_log) :
        /\ disc_log[i].event = earnings_date
        /\ disc_log[i].dte = target_dte}

\* C10: for an earnings date more than 60 days old, discovery decides each
\* DTE bucket once, and all of them before the first request of the day
\* loop; every request of the day loop is for the expiration and side that
\* discovery stored for its bucket, the same on every day, with a strike of
\* generate_smart_strikes of that day's close; a bucket for which discovery
\* stored None gets no request.
C10_DiscoveryFixesContract ==
    /\ \A i, j \in 1..Len(disc_log) :
          /\ disc_log[i].event = disc_log[j].event
          /\ disc_log[i].dte = disc_log[j].dte
          => i = j
    /\ last_request.kind = "probe" =>
          \A k \in 1..Len(DTE_BUCKETS) :
              <<last_request.event, DTE_BUCKETS[k]>> \notin DOMAIN first_day
    /\ last_request.kind \in {"day", "chains"} /\ OldEvent(last_request.event) =>
          /\ last_request.kind = "day"
          /\ \A k \in 1..Len(DTE_BUCKETS) :
                Decisions(last_request.event, DTE_BUCKETS[k]) # {}
          /\ \E i \in Decisions(last_request.event, last_request.dte) :
                /\ disc_log[i].kind = "discovered"
                /\ disc_log[i].exp = last_request.exp
                /\ disc_log[i].side = last_request.side
          /\ last_request.strike \in
                Range(generate_smart_strikes(
                          e_in.ohlc_by_date[last_request.day], MAX_STRIKES))
          /\ first_day[<<last_request.event, last_request.dte>>].exp
                = last_request.exp
          /\ first_day[<<last_request.event, last_request.dte>>].side
                = last_request.side

\* an old earnings date: a bucket is requested on a later day with another
\* strike than on its first day, while discovery found nothing for another
\* bucket
C10_Witness ==
    /\ last_request.kind = "day"
    /\ OldEvent(last_request.event)
    /\ first_day[<<last_request.event, last_request.dte>>].day
          # last_request.day
    /\ first_day[<<last_request.event, last_request.dte>>].strike
          # last_request.strike
    /\ \E i \in 1..Len(disc_log) :
          /\ disc_log[i].event = last_request.event
          /\ disc_log[i].kind = "nothing"

\* C11: for an earnings date at most 60 days old, a bucket is first asked of
\* the currently listed contracts, and a bucket that none of them gave an IV
\* for on an analysis date is then put to contract discovery for that date
\* and bucket.
C11_FallsBackToDiscovery ==
    (e_pc \in {"day", "dte", "request"} /\ ~OldEvent(EarningsDate)) =>
        /\ \A key \in DOMAIN first_day :
              key[1] = EarningsDate => first_day[key].kind = "chains"
        /\ \A p \in 1..Len(earnings_data_points) :
              \A b \in 1..Len(DTE_BUCKETS) :
                 DTE_BUCKETS[b] \notin DOMAIN earnings_data_points[p].ivs =>
                    \E i \in 1..Len(disc_log) :
                       /\ disc_log[i].event = EarningsDate
                       /\ disc_log[i].dte = DTE_BUCKETS[b]

(***************************************************************************)
(* The symbol codec's claims.                                              *)
(***************************************************************************)
\* a symbol of 15 characters or more with digits in the 6 date positions
\* and the 8 strike positions
DigitsInPlace(s) ==
    /\ Len(s) >= 15
    /\ \A i \in (Len(s) - 14)..(Len(s) - 9) : IsDigit(s[i])
    /\ \A i \in (Len(s) - 7)..Len(s) : IsDigit(s[i])

\* C12: decode(encode(c)) = c for every valid ContractId c: a non-empty
\* upper-case alphanumeric ticker, a real expiration date in 2000-2099, a
\* side call or put, and a positive strike that is a multiple of 0.001 and
\* is encoded in 8 digits.
C12_DecodeInvertsEncode ==
    (c_pc = "contract_round_trip"
       /\ Len(c_encoded.value) = Len(c_contract.ticker) + 15) =>
        /\ ~c_parsed.raised
        /\ c_parsed.value.ticker = c_contract.ticker
        /\ c_parsed.value.expiration = StrftimeIso(c_contract.exp_date)
        /\ c_parsed.value.type = OptTypeName(c_contract.opt_type_code)
        /\ FloatCmp(c_parsed.value.strike, c_contract.strike) = 0

\* C13: encode(decode(s)) = s for every symbol s of length 15 or more with
\* digits in the 6 date positions and the 8 strike positions, whatever its
\* side character and its ticker prefix (the empty prefix included).
C13_EncodeInvertsDecode ==
    (c_pc = "symbol_round_trip" /\ DigitsInPlace(c_symbol)) =>
        c_encoded = Return(c_symbol)

\* C14: decode raises a malformed-symbol error, and returns no value, for
\* every symbol shorter than 15 characters and for every symbol with a
\* character that is not a digit in one of the 8 strike positions or the 6
\* date positions.
C14_MalformedSymbolFails ==
    (c_pc = "parsed" /\ ~DigitsInPlace(c_symbol)) => c_parsed = Raise

\* C15: for a symbol of length 15 or more with digits in the date and
\* strike positions, decode returns as ticker the characters before the
\* last 15, as expiration 20YY-MM-DD read from the 6 date digits, as strike
\* the last 8 digits divided by 1000, and as side call exactly when the
\* character 9th from the end is 'C', put otherwise; AAPL251017C00150000
\* gives AAPL, 2025-10-17, call, 150.0.
C15_DecodedFields ==
    (c_pc = "parsed" /\ DigitsInPlace(c_symbol)) =>
        LET n == Len(c_symbol)
            date == SubSeq(c_symbol, n - 14, n - 9)
        IN  /\ c_parsed =
                 Return([ticker |-> SubSeq(c_symbol, 1, n - 15),
                         expiration |-> <<"2", "0">> \o SubSeq(date, 1, 2)
                                        \o <<"-">> \o SubSeq(date, 3, 4)
                                        \o <<"-">> \o SubSeq(date, 5, 6),
                         type |-> IF c_symbol[n - 8] = "C" THEN "call"
                                  ELSE "put",
                         strike |-> FloatOfDecimal(
                             DecimalValue(SubSeq(c_symbol, n - 7, n)), 1000),
                         symbol |-> c_symbol])
            /\ c_symbol = ExampleSymbol =>
                 /\ c_parsed.value.ticker = <<"A", "A", "P", "L">>
                 /\ c_parsed.value.expiration =
                       <<"2", "0", "2", "5", "-", "1", "0", "-", "1", "7">>
                 /\ c_parsed.value.type = "call"
                 /\ c_parsed.value.strike = FloatOfInt(150)

\* a symbol with an empty prefix and a side character other than C and P
\* was parsed as a put
C15_Witness ==
    /\ c_pc = "parsed"
    /\ DigitsInPlace(c_symbol)
    /\ Len(c_symbol) = 15
    /\ c_symbol[7] = "X"
    /\ c_parsed.value.type = "put"
    /\ c_parsed.value.ticker = <<>>

(***************************************************************************)
(* The strike selector's claims.                                           *)
(***************************************************************************)
\* C16: closestStrikes(spot, available, n) returns at most n strikes, for
\* every n >= 1, every spot and every set of available strikes.
C16_AtMostN ==
    k_pc = "closest" => Len(k_out) <= k_in.num_strikes

\* the strikes of the call that are at or below the spot, and above it
AtOrBelowSpot == {s \in Range(k_in.available_strikes) : s <= k_in.spot_price}
AboveSpot == {s \in Range(k_in.available_strikes) : s > k_in.spot_price}

\* C17: for n >= 2 the result is an ascending list of available strikes
\* that holds the greatest available strike at or below the spot when
\* there is one and the least available strike above the spot when there
\* is one; with the spot below every available strike it holds only the
\* nearest strikes above the spot, and symmetrically; spot 152.30 over
\* {145, 150, 155, 160} with n = 2 gives [150, 155].
C17_StraddlesSpot ==
    (k_pc = "closest" /\ k_in.num_strikes >= 2) =>
        /\ \A i, j \in 1..Len(k_out) : i < j => k_out[i] <= k_out[j]
        /\ Range(k_out) \subseteq Range(k_in.available_strikes)
        /\ AtOrBelowSpot # {} =>
              (CHOOSE s \in AtOrBelowSpot : \A t \in AtOrBelowSpot : t <= s)
                 \in Range(k_out)
        /\ AboveSpot # {} => SetMin(AboveSpot) \in Range(k_out)
        /\ AtOrBelowSpot = {} =>
              \A s \in Range(k_out) :
                 \A t \in AboveSpot : t < s => t \in Range(k_out)
        /\ AboveSpot = {} =>
              \A s \in Range(k_out) :
                 \A t \in AtOrBelowSpot : t > s => t \in Range(k_out)
        /\ (/\ k_in.spot_price = 152300
            /\ k_in.available_strikes = <<145000, 150000, 155000, 160000>>
            /\ k_in.num_strikes = 2) => k_out = <<150000, 155000>>

\* the example of the claim was computed
C17_Witness ==
    /\ k_pc = "closest"
    /\ k_in.spot_price = 152300
    /\ k_in.available_strikes = <<145000, 150000, 155000, 160000>>
    /\ k_in.num_strikes = 2
    /\ k_out = <<150000, 155000>>

\* the candles of the call that fall on a date and have a close
CandlesOn(date) ==
    {i \in 1..Len(k_in.ohlc_data) :
        /\ Dated(k_in.ohlc_data[i])
        /\ DateOf(TimestampOf(k_in.ohlc_data[i])) = date
        /\ Get(k_in.ohlc_data[i], "close") > 0}

ExampleCandles ==
    CandlesOf(1, <<100000, 101000, 99000>>) \o CandlesOf(2, <<200000, 205000>>)

\* C18: requiredStrikesPerDay maps each calendar date among the candles to
\* exactly the sorted union of closestStrikes(close, available, 3) over the
\* candles of that date, and of no other date; closes [100, 101, 99] and
\* [200, 205] over {95, 100, 105, 195, 200, 205, 210} give {95, 100, 105}
\* for the first day and {195, 200, 205, 210} for the second.
C18_PerDayStrikes ==
    (k_pc = "required" /\ ~k_out.by_date.raised) =>
        LET by_date == k_out.by_date.value
        IN  /\ {by_date[k].date : k \in 1..Len(by_date)}
                 = {DateOf(TimestampOf(k_in.ohlc_data[i])) :
                      i \in {j \in 1..Len(k_in.ohlc_data) :
                               Dated(k_in.ohlc_data[j])}}
            /\ \A k, l \in 1..Len(by_date) :
                  by_date[k].date = by_date[l].date => k = l
            /\ \A k \in 1..Len(by_date) :
                  /\ \A i, j \in 1..Len(by_date[k].strikes) :
                        i < j => by_date[k].strikes[i] < by_date[k].strikes[j]
                  /\ Range(by_date[k].strikes)
                       = UNION {Range(find_closest_strikes(
                                          k_in.ohlc_data[i].close,
                                          k_in.available_strikes, 3)) :
                                  i \in CandlesOn(by_date[k].date)}
            /\ (k_in.ohlc_data = ExampleCandles
                  /\ k_in.available_strikes = ExampleStrikes) =>
                  by_date = <<[date |-> 1,
                               strikes |-> <<95000, 100000, 105000>>],
                              [date |-> 2,
                               strikes |-> <<195000, 200000, 205000, 210000>>]>>

\* the example of the claim was computed
C18_Witness ==
    /\ k_pc = "required"
    /\ k_in.ohlc_data = ExampleCandles
    /\ k_in.available_strikes = ExampleStrikes
    /\ ~k_out.by_date.raised
    /\ Len(k_out.by_date.value) = 2
    /\ k_out.by_date.value[1].strikes # k_out.by_date.value[2].strikes

\* C19: each day's strike set is no larger than the selection over the
\* full range of candles, and the union of the days' sets is a subset of
\* that selection.
C19_WithinFullRange ==
    (k_pc = "required" /\ ~k_out.by_date.raised /\ ~k_out.full_range.raised) =>
        LET by_date == k_out.by_date.value
            full_range == k_out.full_range.value
        IN  /\ \A k \in 1..Len(by_date) :
                  Len(by_date[k].strikes) <= Len(full_range)
            /\ UNION {Range(by_date[k].strikes) : k \in 1..Len(by_date)}
                  \subseteq Range(full_range)

\* two days were computed whose sets are both smaller than the full range
C19_Witness ==
    /\ k_pc = "required"
    /\ ~k_out.by_date.raised /\ ~k_out.full_range.raised
    /\ Len(k_out.by_date.value) = 2
    /\ \A k \in 1..2 :
          /\ k_out.by_date.value[k].strikes # <<>>
          /\ Len(k_out.by_date.value[k].strikes) < Len(k_out.full_range.value)

(***************************************************************************)
(* The interpolation's claim.                                              *)
(***************************************************************************)
\* C20: for every spot and every non-empty map from strike to IV the
\* result of interpolateIV lies within [min IV, max IV] of the map, and
\* when the spot equals a strike of the map (an interior one, the smallest
\* or the largest) the result is that strike's IV exactly.
C20_WithinRange ==
    (i_pc = "done" /\ DOMAIN i_in.strike_to_iv # {}) =>
        LET ivs == {i_in.strike_to_iv[s] : s \in DOMAIN i_in.strike_to_iv}
        IN  /\ FloatCmp(FloatMin(ivs), i_out) <= 0
            /\ FloatCmp(i_out, FloatMax(ivs)) <= 0
            /\ \A s \in DOMAIN i_in.strike_to_iv :
                  FloatCmp(s, i_in.spot_price) = 0 =>
                     i_out = i_in.strike_to_iv[s]

\* C21: interpolateIV(spot, map) equals the reference rule: an empty map
\* gives null; with lower the greatest strike <= spot and upper the least
\* strike > spot, the result is the IV of the smallest strike when there is
\* no lower, the IV of the largest strike when there is no upper, and
\* otherwise ivLower + (spot-lower)/(upper-lower) * (ivUpper-ivLower), read
\* from the two bracketing strikes only.
C21_ReferenceRule ==
    i_pc = "done" =>
        LET map == i_in.strike_to_iv
            spot == i_in.spot_price
            lowers == {s \in DOMAIN map : FloatCmp(s, spot) <= 0}
            uppers == {s \in DOMAIN map : FloatCmp(s, spot) > 0}
        IN  IF DOMAIN map = {} THEN i_out = None
            ELSE IF lowers = {} THEN i_out = map[FloatMin(DOMAIN map)]
            ELSE IF uppers = {} THEN i_out = map[FloatMax(DOMAIN map)]
            ELSE LET lower == FloatMax(lowers)
                     upper == FloatMin(uppers)
                 IN  i_out =
                        FloatAdd(map[lower],
                                 FloatMul(FloatDiv(FloatSub(spot, lower),
                                                   FloatSub(upper, lower)),
                                          FloatSub(map[upper], map[lower])))

\* the spot 100 was interpolated over a map of four strikes, two below it
\* and two above it, between 5.9 and 150: every other pair of one strike
\* below and one above gives another value
C21_Witness ==
    /\ i_pc = "done"
    /\ i_in.spot_price = StrikeOf(100000)
    /\ DOMAIN i_in.strike_to_iv = {StrikeOf(s) : s \in InterpStrikes}
    /\ LET map == i_in.strike_to_iv
           spot == i_in.spot_price
           Between(lower, upper) ==
               Interpolate(spot, StrikeOf(lower), StrikeOf(upper),
                           map[StrikeOf(lower)], map[StrikeOf(upper)])
       IN  /\ i_out = Between(5900, 150000)
           /\ i_out \notin {Between(1400, 150000), Between(5900, 155000),
                            Between(1400, 155000)}
           /\ i_out \notin {map[s] : s \in DOMAIN map}

(***************************************************************************)
(* The aligner's claim.                                                    *)
(***************************************************************************)
\* the observations of series under key: those with an implied volatility
ObservationsUnder(series, key, KeyOf(_)) ==
    LET Under(p) == KeyOf(p) = key /\ Get(p, "iv") # Absent
    IN  SelectSeq(series, Under)

\* the points of one mode are the candles with a timestamp and a close, in
\* order, each with null IV exactly when no strike has an observation under
\* its key and otherwise with the IV interpolated over the strikes' latest
\* observations under the key
PointsFollowCandles(KeyOfCandle(_), KeyOf(_)) ==
    LET Whole(c) == Timestamped(c) /\ Get(c, "close") # Absent
        candles == SelectSeq(i_in.ohlc_data, Whole)
        by_strike == i_in.by_strike
    IN  /\ Len(i_out) = Len(candles)
        /\ \A k \in 1..Len(candles) :
              LET key == KeyOfCandle(candles[k])
                  Seen(n) == ObservationsUnder(by_strike[n].series, key, KeyOf)
                  hits == {n \in 1..Len(by_strike) : Seen(n) # <<>>}
                  map == [s \in {by_strike[n].strike : n \in hits} |->
                            LET n == CHOOSE n \in hits : by_strike[n].strike = s
                            IN  Last(Seen(n)).iv]
              IN  /\ i_out[k].timestamp = TimestampOf(candles[k])
                  /\ i_out[k].close = candles[k].close
                  /\ (i_out[k].iv = NoIV) <=> (hits = {})
                  /\ hits # {} =>
                        i_out[k].iv = interpolate_iv(candles[k].close, map)

CandleTimestamp(candle) == TimestampOf(candle)
CandleDate(candle) == DateOf(TimestampOf(candle))

\* C22: in both alignment modes the output holds exactly one point per input
\* candle that has a timestamp and a numeric close, in input order, with the
\* candle's timestamp and prices; the point's IV is null exactly when no
\* strike has an observation under the candle's key (its exact timestamp in
\* intraday alignment, its calendar date in historic alignment) and is
\* otherwise interpolateIV(close, the strike -> IV map of that key).
C22_OnePointPerCandle ==
    /\ i_pc = "intraday" => PointsFollowCandles(CandleTimestamp, PointTime)
    /\ i_pc = "historic" => PointsFollowCandles(CandleDate, RecordDate)

(***************************************************************************)
(* Discovery's claim.                                                      *)
(***************************************************************************)
\* brute_force_find_contract is looking for a contract of a past analysis date
PastDiscovery == job = "discover" /\ args.analysis_date < args.today

\* C23: for a past analysis date, discover probes only the three Fridays of
\* the tolerance band (the Friday nearest to the target, the one a week
\* before and the one a week after), one expiration at a time: the probes of
\* the next expiration are issued only after every probe of the current one
\* has completed without success, none is issued after an expiration had a
\* success, the result is none when the whole band is exhausted, and with no
\* sides there is no probe at all and the result is none.
C23_BandOneAtATime ==
    /\ [](PastDiscovery =>
            /\ \E friday \in (args.target_exp_date - 3)..(args.target_exp_date + 3) :
                  /\ Weekday(friday) = 4
                  /\ Len(expirations) = 3
                  /\ Range(expirations) = {friday - 7, friday, friday + 7}
            /\ \A i \in Tasks : tasks[i].exp_date = expirations[exp_idx]
            /\ args.option_types = <<>> => tasks = <<>>
            /\ fan_pc = "done" =>
                  /\ found = None <=> Hits = {}
                  /\ found = None => exp_idx = Len(expirations))
    /\ [][(PastDiscovery /\ (exp_idx' # exp_idx \/ tasks' # tasks)) =>
            /\ fan_pc = "gather"
            /\ \A i \in Tasks : fetched[i].done
            /\ Hits = {}
            /\ exp_idx' = exp_idx + 1]_vars

\* a contract of a past analysis date was found on the last Friday of the
\* band, after the first two Fridays were exhausted
C23_Witness ==
    /\ PastDiscovery
    /\ fan_pc = "done"
    /\ exp_idx = 3
    /\ found # None

(***************************************************************************)
(* The fetch client's slots and spacing.                                   *)
(***************************************************************************)
\* C24: every call releases its slot on every exit path (a response, an
\* error status that is not retried, the retries of a rate limit exhausted,
\* a transport exception): the slots taken are those of the calls past
\* acquisition and not finished, so with no call in progress every slot is
\* free; and a caller waiting for a slot is eventually admitted, provided
\* every HTTP attempt eventually returns.
\* (A caller that is always eventually not waiting is admitted whenever it
\* waits.)
C24_SlotsReleased ==
    /\ [](permits = MAX_CONCURRENT_REQUESTS - Cardinality(InFlight))
    /\ [](InFlight = {} => permits = MAX_CONCURRENT_REQUESTS)
    /\ \A c \in Callers : []<>(pc[c] # "waiting")

\* every caller has called and finished, by each of the exit paths among
\* them, and every slot is free again
C24_Witness ==
    /\ \A c \in Callers : pc[c] = "done"
    /\ ndispatched[NCallers] > 0
    /\ \E c \in Callers : result[c].kind = "response"
    /\ \E c \in Callers : result[c].kind = "TransportError"
    /\ \E c \in Callers : result[c].kind = "HTTPStatusError" /\ result[c].status = 500
    /\ \E c \in Callers : result[c].kind = "HTTPStatusError" /\ AllRateLimited(c)
    /\ permits = MAX_CONCURRENT_REQUESTS

\* C25: every HTTP attempt the client dispatches, a retry after a rate-limit
\* response included, is dispatched at least REQUEST_DELAY after the latest
\* attempt dispatched before it by any caller of the client.
C25_EveryAttemptSpaced ==
    [][\A c \in Callers :
          ndispatched'[c] > ndispatched[c] =>
             \/ last_dispatch = NoDispatch
             \/ now - last_dispatch >= REQUEST_DELAY]_vars

(***************************************************************************)
(* The probes of discovery.                                                *)
(***************************************************************************)
\* C26: a discovery probe of a candidate symbol succeeds if and only if the
\* historic-data endpoint returns for that symbol at least one record whose
\* date is the analysis date.
C26_ProbeSucceedsOnDate ==
    job = "discover" =>
        \A i \in Tasks :
            fetched[i].done =>
                ((results[i] # None /\ results[i] # ExceptionObject)
                    <=> (/\ ~fetched[i].raised
                         /\ \E k \in 1..Len(fetched[i].data) :
                               fetched[i].data[k].date = args.analysis_date))

(***************************************************************************)
(* The earnings window's recorded IVs and result.                          *)
(***************************************************************************)
\* C27: every IV value collect_earnings_iv_data records was read from a
\* contract of the requested option side (a call for option_type 'call', a
\* put for 'put'), in discovery mode and in current-chains mode alike.
C27_RequestedSideOnly ==
    [][(dte_ivs' # dte_ivs /\ dte_ivs' # <<>>) =>
          /\ last_request'.dte \in DOMAIN dte_ivs'
          /\ last_request'.side \in Range(e_in.option_types)]_vars

\* C28: in the result of collect_earnings_iv_data every earnings date listed
\* under 'earnings_dates' has an entry under 'data' (possibly without IVs),
\* and every day-offset entry lies within [-days_window, +days_window], is
\* a weekday with a price candle, and has IV keys among the DTE buckets.
C28_ResultShape ==
    e_pc = "done" =>
        /\ \A i \in 1..Len(past_earnings) :
              \E r \in 1..Len(results_data) :
                 results_data[r].earnings_date = past_earnings[i]
        /\ \A r \in 1..Len(results_data) :
              \A p \in 1..Len(results_data[r].points) :
                 LET point == results_data[r].points[p]
                     analysis_date == results_data[r].earnings_date
                                        + point.day_offset
                 IN  /\ point.day_offset \in
                            (0 - e_in.days_window)..e_in.days_window
                     /\ Weekday(analysis_date) < 5
                     /\ analysis_date \in DOMAIN e_in.ohlc_by_date
                     /\ DOMAIN point.ivs \subseteq Range(DTE_BUCKETS)

(***************************************************************************)
(* The discovery helpers' claims.                                          *)
(***************************************************************************)
\* the strike increment of a spot price: 2.5 below 50, 5 below 200, 10
\* below 500, 25 otherwise
TierIncrement(spot) ==
    CASE spot < 50000 -> 2500
      [] spot >= 50000 /\ spot < 200000 -> 5000
      [] spot >= 200000 /\ spot < 500000 -> 10000
      [] OTHER -> 25000

\* C29: for every spot price > 0 and every max_strikes >= 1,
\* generate_smart_strikes returns exactly max_strikes distinct, strictly
\* positive strikes, each a multiple of the tier increment, ordered by
\* non-decreasing distance from the spot.
C29_SmartStrikes ==
    (k_pc = "smart" /\ k_in.spot_price > 0 /\ k_in.max_strikes >= 1) =>
        /\ Len(k_out) = k_in.max_strikes
        /\ \A i, j \in 1..Len(k_out) : i # j => k_out[i] # k_out[j]
        /\ \A i \in 1..Len(k_out) :
              /\ k_out[i] > 0
              /\ k_out[i] % TierIncrement(k_in.spot_price) = 0
        /\ \A i \in 1..(Len(k_out) - 1) :
              Abs(k_out[i] - k_in.spot_price)
                  <= Abs(k_out[i + 1] - k_in.spot_price)

\* C30: find_nearest_expiration returns a Friday for every date: the date
\* itself when it is a Friday, otherwise whichever of the preceding and the
\* following Friday is closer in days, the later one on a tie.
C30_NearestFriday ==
    k_pc = "nearest" =>
        LET d == k_in.target_date
            IsFriday(x) == Weekday(x) = 4
            following == CHOOSE x \in (d + 1)..(d + 7) : IsFriday(x)
            preceding == CHOOSE x \in (d - 7)..(d - 1) : IsFriday(x)
        IN  /\ IsFriday(k_out)
            /\ IsFriday(d) => k_out = d
            /\ ~IsFriday(d) =>
                  k_out = IF following - d <= d - preceding THEN following
                          ELSE preceding

\* a Saturday gives the Friday before it and a Thursday the Friday after it
C30_Witness ==
    /\ k_pc = "nearest"
    /\ Weekday(k_in.target_date) = 5
    /\ k_out = k_in.target_date - 1

====
